---- MODULE Spec2Model ----
(***************************************************************************)
(* Search-and-bookkeeping engine of the kernel-guided fuzzer.              *)
(*                                                                         *)
(* The repository holds two scripts that each carry their own copy of the  *)
(* engine classes: benchmark_full_oracle.py (variant "full") and           *)
(* benchmark_full_oracle_tc.py (variant "hkg").  A run executes one of     *)
(* the two scripts; the variable `variant` says which one, and every       *)
(* operation is translated once per script where the two copies differ.    *)
(*                                                                         *)
(* Every class is a record, every method an operator from the object (and  *)
(* the arguments) to the new object and the returned value; the actions    *)
(* apply a method to the object held in a variable and leave the returned  *)
(* value in `ret`.                                                         *)
(***************************************************************************)
EXTENDS Integers, Sequences, FiniteSets, TLC

VARIABLES
    variant,     \* which script runs: "full" or "hkg"
    clock,       \* the smallest iteration index the driver has not used yet
    tracker,     \* EnhancedCoverageTracker
    detector,    \* a stand-alone AdaptiveSaturationDetector
    corpus,      \* EvolutionaryCorpus
    controller,  \* AdaptiveMutationController
    space,       \* DispatcherSpace
    ret,         \* the last call: its name, its arguments, what it returned
    fed,         \* history: every token ever passed to tracker.update
    admitted,    \* history: every seed add_seed was called with a non-empty kernel set for
    streak,      \* history: the current run of detector.update calls without growth
    seen,        \* history: per target, the combinations record_hit was called with
    dedup,       \* RealTimeBugDeduplicator
    recorded,    \* history: per bucket, the record_bug calls: the text, what came back
    disk,        \* the files of the output directory: name -> content
    saver,       \* a CheckpointManager and how far its save has come
    engine,      \* EnhancedFuzzer: its parameters and where run_fuzzing_loop is
    run,         \* history: what the run loaded, had at loop start, and executed
    heap,        \* the TorchAPI objects of a pass and the references to them
    library,     \* TorchLibrary: its deduplication state and what it wrote
    hkg          \* the HKG script's copies of the tracker and the corpus, fed the same calls

vars == <<variant, clock, tracker, detector, corpus, controller, space, ret,
          fed, admitted, streak, seen, dedup, recorded, disk, saver,
          engine, run, heap, library, hkg>>

\* the variables of the classes that read diagnostics, of the library and
\* of the copied classes
bugvars == <<dedup, recorded, library, hkg>>

\* the variables of the checkpoint files
filevars == <<disk, saver>>

\* the variables of the engine
enginevars == <<engine, run, heap>>

(***************************************************************************)
(* Bounds of the model.                                                    *)
(***************************************************************************)
MaxIter == 5          \* iteration indices 0..MaxIter
MaxPatience == 2      \* patience is drawn from 1..MaxPatience
MaxInterval == 2      \* check_interval is drawn from 1..MaxInterval
MaxTotal == 2         \* current_kernels handed to a stand-alone detector: 0..MaxTotal
MaxCorpusSize == 2    \* max_size is drawn from 1..MaxCorpusSize
MaxAdds == 4          \* add_seed calls per run
MaxDraws == 4         \* should_explore calls per run
MaxHitsCap == 2       \* max_hits is drawn from 1..MaxHitsCap
MaxSpaceCalls == 3    \* register_api and record_hit calls per run
MaxSignaturesCap == 2 \* max_signatures is drawn from 1..MaxSignaturesCap
MaxBugCalls == 2      \* record_bug and classify_bug calls per run
MaxSavedIter == 1     \* a driver saves checkpoints of iterations 0..MaxSavedIter
MaxFileCalls == 3     \* save, load and clear calls per run
MaxIterations == 3    \* max_iterations is drawn from 1..MaxIterations
MaxRuns == 2          \* how often the command is given on one output directory
MaxRunIterations == 2 \* max_iterations of a run followed to its end under fairness
MaxObjects == 8       \* TorchAPI and argument objects made in a run

Tokens == {"k1", "k2"}
Variants == {"full", "hkg"}

NoCall == [op |-> "none"]

(***************************************************************************)
(* Helpers.                                                                *)
(***************************************************************************)
Range(s) == {s[i] : i \in 1..Len(s)}

Min(a, b) == IF a <= b THEN a ELSE b

\* the last n elements of s
LastN(s, n) == SubSeq(s, Len(s) - n + 1, Len(s))

\* sequences over S of length at most n
SeqsUpTo(S, n) == UNION {[1..k -> S] : k \in 0..n}

(***************************************************************************)
(* AdaptiveSaturationDetector (benchmark_full_oracle.py).                  *)
(***************************************************************************)
Detector_init(patience, check_interval) ==
    [patience |-> patience,
     check_interval |-> check_interval,
     no_discovery_count |-> 0,
     last_kernel_count |-> 0,
     last_check_iteration |-> 0,
     expansion_mode |-> FALSE,
     expansion_count |-> 0]

\* mutant: the expansion trigger forgets to test `not self.expansion_mode`
Detector_update_retrigger(d, current_kernels, iteration) ==
    LET grew == current_kernels > d.last_kernel_count
        d1 == IF grew
              THEN [d EXCEPT !.no_discovery_count = 0,
                             !.last_kernel_count = current_kernels]
              ELSE [d EXCEPT !.no_discovery_count = @ + 1]
    IN  IF grew /\ d.expansion_mode
        THEN [self |-> [d1 EXCEPT !.expansion_mode = FALSE],
              should_expand |-> FALSE, message |-> "returning to normal"]
        ELSE IF iteration - d1.last_check_iteration >= d1.check_interval
        THEN LET d2 == [d1 EXCEPT !.last_check_iteration = iteration]
             IN  IF d2.no_discovery_count >= d2.patience
                 THEN [self |-> [d2 EXCEPT !.expansion_mode = TRUE,
                                           !.expansion_count = @ + 1],
                       should_expand |-> TRUE, message |-> "expanding search"]
                 ELSE [self |-> d2, should_expand |-> FALSE, message |-> ""]
        ELSE [self |-> d1, should_expand |-> FALSE, message |-> ""]

\* mutant: growth in expansion mode does not leave the mode at once; the call
\* falls through to the periodic check
Detector_update_lateexit(d, current_kernels, iteration) ==
    LET grew == current_kernels > d.last_kernel_count
        d1 == IF grew
              THEN [d EXCEPT !.no_discovery_count = 0,
                             !.last_kernel_count = current_kernels]
              ELSE [d EXCEPT !.no_discovery_count = @ + 1]
    IN  IF iteration - d1.last_check_iteration >= d1.check_interval
        THEN LET d2 == [d1 EXCEPT !.last_check_iteration = iteration]
             IN  IF d2.no_discovery_count >= d2.patience /\ ~d2.expansion_mode
                 THEN [self |-> [d2 EXCEPT !.expansion_mode = TRUE,
                                           !.expansion_count = @ + 1],
                       should_expand |-> TRUE, message |-> "expanding search"]
                 ELSE [self |-> [d2 EXCEPT !.expansion_mode =
                                               IF grew THEN FALSE ELSE @],
                       should_expand |-> FALSE, message |-> ""]
        ELSE [self |-> d1, should_expand |-> FALSE, message |-> ""]

\* mutant: the expansion trigger is tested on every call, not only when
\* check_interval iterations have passed since the last check
Detector_update_unthrottled(d, current_kernels, iteration) ==
    LET grew == current_kernels > d.last_kernel_count
        d1 == IF grew
              THEN [d EXCEPT !.no_discovery_count = 0,
                             !.last_kernel_count = current_kernels]
              ELSE [d EXCEPT !.no_discovery_count = @ + 1]
    IN  IF grew /\ d.expansion_mode
        THEN [self |-> [d1 EXCEPT !.expansion_mode = FALSE],
              should_expand |-> FALSE, message |-> "returning to normal"]
        ELSE LET d2 == IF iteration - d1.last_check_iteration >= d1.check_interval
                       THEN [d1 EXCEPT !.last_check_iteration = iteration]
                       ELSE d1
             IN  IF d2.no_discovery_count >= d2.patience /\ ~d2.expansion_mode
                 THEN [self |-> [d2 EXCEPT !.expansion_mode = TRUE,
                                           !.expansion_count = @ + 1],
                       should_expand |-> TRUE, message |-> "expanding search"]
                 ELSE [self |-> d2, should_expand |-> FALSE, message |-> ""]

\* update(current_kernels, iteration) -> (should_expand, message)
Detector_update(d, current_kernels, iteration) ==
    LET grew == current_kernels > d.last_kernel_count
        d1 == IF grew
              THEN [d EXCEPT !.no_discovery_count = 0,
                             !.last_kernel_count = current_kernels]
              ELSE [d EXCEPT !.no_discovery_count = @ + 1]
    IN  IF grew /\ d.expansion_mode
        THEN [self |-> [d1 EXCEPT !.expansion_mode = FALSE],
              should_expand |-> FALSE, message |-> "returning to normal"]
        ELSE IF iteration - d1.last_check_iteration >= d1.check_interval
        THEN LET d2 == [d1 EXCEPT !.last_check_iteration = iteration]
             IN  IF d2.no_discovery_count >= d2.patience /\ ~d2.expansion_mode
                 THEN [self |-> [d2 EXCEPT !.expansion_mode = TRUE,
                                           !.expansion_count = @ + 1],
                       should_expand |-> TRUE, message |-> "expanding search"]
                 ELSE [self |-> d2, should_expand |-> FALSE, message |-> ""]
        ELSE [self |-> d1, should_expand |-> FALSE, message |-> ""]

\* reset()
Detector_reset(d) ==
    [d EXCEPT !.no_discovery_count = 0, !.expansion_mode = FALSE]

(***************************************************************************)
(* EnhancedCoverageTracker.  The argument new_kernels is what the caller   *)
(* hands over: a set, another iterable (a list, with repetitions) or None. *)
(***************************************************************************)
KernelArgs ==
    [kind : {"set"}, val : SUBSET Tokens]
        \cup [kind : {"list"}, val : SeqsUpTo(Tokens, 2)]
        \cup {[kind |-> "none", val |-> {}]}

\* `if not isinstance(new_kernels, set): new_kernels = set(new_kernels) if new_kernels else set()`
AsSet(new_kernels) ==
    IF new_kernels.kind = "set" THEN new_kernels.val
    ELSE IF new_kernels.kind = "list" /\ Len(new_kernels.val) > 0
         THEN Range(new_kernels.val)
         ELSE {}

\* benchmark_full_oracle.py: __init__(name, enable_adaptive_saturation); the
\* detector it builds takes its two parameters from the constructor defaults,
\* scaled here to the drawn (patience, check_interval)
Tracker_init(enable_adaptive_saturation, patience, check_interval) ==
    [all_kernels |-> {},
     kernel_provenance |-> [k \in {} |-> 0],
     history |-> <<>>,
     new_kernel_iterations |-> <<>>,
     has_detector |-> enable_adaptive_saturation,
     saturation_detector |-> Detector_init(patience, check_interval)]

\* benchmark_full_oracle_tc.py: __init__(name)
HkgTracker_init ==
    [all_kernels |-> {},
     kernel_provenance |-> [k \in {} |-> 0],
     history |-> <<>>,
     new_kernel_iterations |-> <<>>]

\* mutant: the history gets its entry only when a token was new
Tracker_absorb_quiet(t, new_kernels, iteration) ==
    LET fresh == AsSet(new_kernels) \ t.all_kernels
    IN  IF fresh = {}
        THEN [self |-> t, num_fresh |-> 0]
        ELSE [self |-> [t EXCEPT
                  !.kernel_provenance =
                      [k \in (DOMAIN t.kernel_provenance) \cup fresh |->
                          IF k \in fresh THEN iteration
                          ELSE t.kernel_provenance[k]],
                  !.all_kernels = @ \cup fresh,
                  !.new_kernel_iterations = Append(@, iteration),
                  !.history = Append(@, <<iteration,
                                          Cardinality(t.all_kernels \cup fresh)>>)],
              num_fresh |-> Cardinality(fresh)]

\* the part of update both scripts share: fresh, provenance, known set, history
Tracker_absorb(t, new_kernels, iteration) ==
    LET fresh == AsSet(new_kernels) \ t.all_kernels
        t1 == IF fresh # {}
              THEN [t EXCEPT
                      !.kernel_provenance =
                          [k \in (DOMAIN t.kernel_provenance) \cup fresh |->
                              IF k \in fresh THEN iteration
                              ELSE t.kernel_provenance[k]],
                      !.all_kernels = @ \cup fresh,
                      !.new_kernel_iterations = Append(@, iteration)]
              ELSE t
    IN  [self |-> [t1 EXCEPT !.history =
                       Append(@, <<iteration, Cardinality(t1.all_kernels)>>)],
         num_fresh |-> Cardinality(fresh)]

\* mutant: the known set is replaced by the tokens of the last call that
\* brought something new, instead of growing by them
Tracker_update_replace(t, new_kernels, iteration) ==
    LET fresh == AsSet(new_kernels) \ t.all_kernels
        t1 == IF fresh # {}
              THEN [t EXCEPT !.all_kernels = AsSet(new_kernels),
                             !.new_kernel_iterations = Append(@, iteration)]
              ELSE t
    IN  [self |-> [t1 EXCEPT !.history =
                       Append(@, <<iteration, Cardinality(t1.all_kernels)>>)],
         num_fresh |-> Cardinality(fresh),
         should_expand |-> FALSE,
         message |-> ""]

\* benchmark_full_oracle.py: update(new_kernels, iteration)
\*     -> (new_kernel_count, (should_expand, message))
Tracker_update(t, new_kernels, iteration) ==
    LET a == Tracker_absorb(t, new_kernels, iteration)
        s == Detector_update(a.self.saturation_detector,
                             Cardinality(a.self.all_kernels), iteration)
    IN  IF t.has_detector
        THEN [self |-> [a.self EXCEPT !.saturation_detector = s.self],
              num_fresh |-> a.num_fresh,
              should_expand |-> s.should_expand,
              message |-> s.message]
        ELSE [self |-> a.self,
              num_fresh |-> a.num_fresh,
              should_expand |-> FALSE,
              message |-> ""]

\* mutant: the copy logs a history entry only for a call that brought a new token
HkgTracker_update_unlogged(t, new_kernels, iteration) ==
    LET fresh == AsSet(new_kernels) \ t.all_kernels
        grown == t.all_kernels \cup fresh
    IN  [self |-> [t EXCEPT !.all_kernels = grown,
                            !.history = IF fresh # {} THEN Append(@, <<iteration, Cardinality(grown)>>)
                                        ELSE @],
         num_fresh |-> Cardinality(fresh)]

\* benchmark_full_oracle_tc.py: update(new_kernels, iteration) -> len(fresh)
HkgTracker_update(t, new_kernels, iteration) ==
    LET fresh == AsSet(new_kernels) \ t.all_kernels
        grown == t.all_kernels \cup fresh
        marked == [k \in (DOMAIN t.kernel_provenance) \cup fresh |->
                      IF k \in fresh THEN iteration ELSE t.kernel_provenance[k]]
    IN  [self |-> [all_kernels |-> grown,
                   kernel_provenance |-> IF fresh # {} THEN marked ELSE t.kernel_provenance,
                   history |-> Append(t.history, <<iteration, Cardinality(grown)>>),
                   new_kernel_iterations |-> IF fresh # {} THEN Append(t.new_kernel_iterations, iteration)
                                             ELSE t.new_kernel_iterations],
         num_fresh |-> Cardinality(fresh)]

\* get_total()
Tracker_get_total(t) == Cardinality(t.all_kernels)

(***************************************************************************)
(* EvolutionaryCorpus.  A candidate (a TorchAPI object) is a value; the    *)
(* deep copy add_seed stores is that value.                                *)
(***************************************************************************)
Candidates == {"api1", "api2", "api3"}

\* benchmark_full_oracle.py: __init__(max_size)
Corpus_init(max_size) == [corpus |-> <<>>, max_size |-> max_size]

\* benchmark_full_oracle_tc.py: __init__(max_size)
HkgCorpus_init(max_size) ==
    [corpus |-> <<>>, seed_scores |-> <<>>, max_size |-> max_size]

\* mutant: eviction drops the newest entry (pop() for pop(0))
Corpus_add_seed_poplast(c, api, discovered_kernels) ==
    IF Cardinality(discovered_kernels) = 0 THEN c
    ELSE LET grown == Append(c.corpus, api)
         IN  IF Len(grown) > c.max_size
             THEN [c EXCEPT !.corpus = SubSeq(grown, 1, Len(grown) - 1)]
             ELSE [c EXCEPT !.corpus = grown]

\* benchmark_full_oracle.py: add_seed(api, discovered_kernels)
Corpus_add_seed(c, api, discovered_kernels) ==
    IF Cardinality(discovered_kernels) = 0 THEN c
    ELSE LET grown == Append(c.corpus, api)
         IN  IF Len(grown) > c.max_size
             THEN [c EXCEPT !.corpus = Tail(grown)]
             ELSE [c EXCEPT !.corpus = grown]

\* benchmark_full_oracle_tc.py: add_seed(api, discovered_kernels)
HkgCorpus_add_seed(c, api, discovered_kernels) ==
    IF Cardinality(discovered_kernels) = 0 THEN c
    ELSE LET grown == Append(c.corpus, api)
             scores == Append(c.seed_scores, Cardinality(discovered_kernels))
         IN  IF Len(grown) > c.max_size
             THEN [c EXCEPT !.corpus = Tail(grown), !.seed_scores = Tail(scores)]
             ELSE [c EXCEPT !.corpus = grown, !.seed_scores = scores]

\* benchmark_full_oracle.py: select_parent() -> random.choice(self.corpus);
\* the set of indices the call may pick (empty: the call returns None)
Corpus_select_parent(c) == 1..Len(c.corpus)

\* benchmark_full_oracle_tc.py: select_parent() -> an index drawn with the
\* weights seed_scores / sum(seed_scores)
HkgCorpus_select_parent(c) == {i \in 1..Len(c.corpus) : c.seed_scores[i] > 0}

\* size()
Corpus_size(c) == Len(c.corpus)

(***************************************************************************)
(* AdaptiveMutationController (benchmark_full_oracle.py).  A probability   *)
(* is a whole number of hundredths.                                        *)
(***************************************************************************)
BaseEpsilon == 10
ExpansionEpsilon == 30
SurgicalRange == 8
ExplorationRange == 64

\* values random.random() may return, in hundredths: both sides of both epsilons
RandomDraws == {0, 9, 10, 29, 30, 99}

Controller_init ==
    [base_epsilon |-> BaseEpsilon,
     expansion_epsilon |-> ExpansionEpsilon,
     surgical_range |-> SurgicalRange,
     exploration_range |-> ExplorationRange,
     current_epsilon |-> BaseEpsilon,
     current_range |-> SurgicalRange,
     expansion_mode |-> FALSE,
     exploration_count |-> 0,
     exploitation_count |-> 0]

\* should_explore(), with r the value random.random() returned
Controller_should_explore(m, r) ==
    IF r < m.current_epsilon
    THEN [self |-> [m EXCEPT !.exploration_count = @ + 1], result |-> TRUE]
    ELSE [self |-> [m EXCEPT !.exploitation_count = @ + 1], result |-> FALSE]

\* mutant: entering expansion raises epsilon and leaves the range alone
Controller_enter_expansion_mode_epsonly(m) ==
    [m EXCEPT !.expansion_mode = TRUE,
              !.current_epsilon = m.expansion_epsilon]

\* enter_expansion_mode()
Controller_enter_expansion_mode(m) ==
    [m EXCEPT !.expansion_mode = TRUE,
              !.current_epsilon = m.expansion_epsilon,
              !.current_range = m.exploration_range]

\* mutant: leaving expansion restores the parameters and keeps the flag
Controller_exit_expansion_mode_flagged(m) ==
    [m EXCEPT !.current_epsilon = m.base_epsilon,
              !.current_range = m.surgical_range]

\* exit_expansion_mode()
Controller_exit_expansion_mode(m) ==
    [m EXCEPT !.expansion_mode = FALSE,
              !.current_epsilon = m.base_epsilon,
              !.current_range = m.surgical_range]

\* get_mutation_range()
Controller_get_mutation_range(m) == m.current_range

(***************************************************************************)
(* DispatcherSpace: the arguments.                                         *)
(*                                                                         *)
(* An optional argument is None or Some(x).  A dimension mapping is the    *)
(* ordered dict it is in Python: a sequence of (name, list of values).  A  *)
(* state_dict is an ordered dict too: a sequence of (key, value) with      *)
(* distinct keys.  A torch dtype is the sequence of the dotted components  *)
(* of its str(): torch.float32 is <<"torch", "float32">>.                   *)
(***************************************************************************)
None == [some |-> FALSE]
Some(x) == [some |-> TRUE, val |-> x]

ApiNames == {"torch.add", "torch.mul"}

\* benchmark_full_oracle.py: DispatcherSpace.DEFAULT_DIMENSIONS
DEFAULT_DIMENSIONS ==
    << [name |-> "dtype",
        values |-> <<"float16", "float32", "float64", "bfloat16",
                     "int8", "int16", "int32", "int64", "uint8",
                     "bool", "complex64", "complex128">>],
       [name |-> "device", values |-> <<"cpu", "cuda">>] >>

\* benchmark_full_oracle_tc.py: DEFAULT_DTYPES, DEFAULT_DEVICES
DEFAULT_DTYPES ==
    <<"int8", "int16", "int32", "int64", "uint8",
      "float16", "float32", "float64", "bfloat16",
      "complex64", "complex128", "bool">>
DEFAULT_DEVICES == <<"cpu", "cuda">>

\* the dimension mappings a caller registers explicitly
DimensionChoices ==
    { << [name |-> "dtype", values |-> <<"float32", "int8">>],
         [name |-> "device", values |-> <<"cpu", "cuda", "xla">>] >>,
      << [name |-> "dtype", values |-> <<"float32">>] >> }

\* the TorchArgument objects of the model: type, dtype (a tensor's), value
TensorArg(name) ==
    [type |-> "TORCH_TENSOR", dtype |-> Some(<<"torch", name>>), value |-> None]
DtypeArg(name) ==
    [type |-> "TORCH_DTYPE", dtype |-> None, value |-> Some(<<"torch", name>>)]
IntArg == [type |-> "INT", dtype |-> None, value |-> None]

\* the TorchAPI objects of the model: api.args, an ordered dict name -> argument
ApiObjects ==
    { << [name |-> "input", arg |-> Some(TensorArg("float32"))] >>,
      << [name |-> "input", arg |-> Some(TensorArg("int8"))],
         [name |-> "dtype", arg |-> Some(DtypeArg("float32"))] >>,
      << [name |-> "dtype", arg |-> Some(DtypeArg("float32"))],
         [name |-> "input", arg |-> Some(TensorArg("int8"))] >>,
      << [name |-> "input", arg |-> Some(TensorArg("qint8"))] >>,
      << [name |-> "dim", arg |-> Some(IntArg)],
         [name |-> "out", arg |-> None] >> }

\* the state_dicts of the model
StateDicts ==
    { << <<"dtype", "float32">>, <<"device", "cpu">> >>,
      << <<"device", "cpu">>, <<"dtype", "float32">> >>,
      << <<"dtype", "qint8">>, <<"device", "cuda">> >>,
      << <<"dtype", "int8">> >> }

\* the (api, state_dict) pairs record_hit of benchmark_full_oracle_tc.py is
\* called with: one of the two, none, or both (state_dict then wins)
HkgObservations ==
    {[api |-> Some(a), state_dict |-> None] : a \in ApiObjects}
        \cup {[api |-> None, state_dict |-> Some(d)] : d \in StateDicts}
        \cup {[api |-> None, state_dict |-> None]}
        \cup {[api |-> Some(<< [name |-> "input", arg |-> Some(TensorArg("float32"))] >>),
                state_dict |-> Some(<< <<"dtype", "int8">> >>)]}

\* str(x) of a dotted name: the components joined by "."
RECURSIVE JoinDots(_)
JoinDots(comps) ==
    IF Len(comps) = 0 THEN ""
    ELSE IF Len(comps) = 1 THEN comps[1]
    ELSE comps[1] \o "." \o JoinDots(Tail(comps))

\* benchmark_full_oracle.py: str(x).replace('torch.', '')
RECURSIVE ReplaceTorch(_)
ReplaceTorch(comps) ==
    IF Len(comps) <= 1 THEN JoinDots(comps)
    ELSE IF comps[1] = "torch" THEN ReplaceTorch(Tail(comps))
    ELSE comps[1] \o "." \o ReplaceTorch(Tail(comps))

\* benchmark_full_oracle_tc.py: `if 'torch.' in s: s = s.split('.')[-1]`
SplitLast(comps) ==
    IF \E i \in 1..(Len(comps) - 1) : comps[i] = "torch"
    THEN comps[Len(comps)]
    ELSE JoinDots(comps)

\* the strings record_hit and get_signature sort, in the order Python's sorted() gives them
SortedStrings ==
    <<"d=float32", "d=int8", "d=qint8", "dev=cpu", "dev=cuda",
      "float32", "int8", "qint8",
      "torch.cuda", "torch.float32", "torch.int8", "torch.segfault">>

\* sorted(S) for a set S of these strings
RECURSIVE SortedFrom(_, _)
SortedFrom(S, i) ==
    IF i > Len(SortedStrings) THEN <<>>
    ELSE IF SortedStrings[i] \in S
         THEN <<SortedStrings[i]>> \o SortedFrom(S, i + 1)
         ELSE SortedFrom(S, i + 1)
Sorted(S) == SortedFrom(S, 1)

\* "|".join(parts)
RECURSIVE JoinBar(_)
JoinBar(parts) ==
    IF Len(parts) = 0 THEN ""
    ELSE IF Len(parts) = 1 THEN parts[1]
    ELSE parts[1] \o "|" \o JoinBar(Tail(parts))

\* hashlib.md5(s.encode()).hexdigest()[:12]: 48 bits of the digest, which tell
\* apart the few short strings of the model
Md5_12(str) == "md5:" \o str

\* size = 1; for dim_values in dimensions.values(): size *= len(dim_values)
RECURSIVE ProductOfSizes(_)
ProductOfSizes(dimensions) ==
    IF Len(dimensions) = 0 THEN 1
    ELSE ProductOfSizes(SubSeq(dimensions, 1, Len(dimensions) - 1))
             * Len(dimensions[Len(dimensions)].values)

\* dict lookup: the keys and the value stored under a key
Keys(d) == {d[i][1] : i \in 1..Len(d)}
Lookup(d, k) == d[CHOOSE i \in 1..Len(d) : d[i][1] = k][2]

\* d[k] = v on an ordered dict: in place when the key is there, appended otherwise
Store(d, k, v) ==
    IF k \in Keys(d)
    THEN [i \in 1..Len(d) |-> IF d[i][1] = k THEN <<k, v>> ELSE d[i]]
    ELSE Append(d, <<k, v>>)

\* a dict with hashable keys: m[k] = v
Put(m, k, v) == [x \in (DOMAIN m) \cup {k} |-> IF x = k THEN v ELSE m[x]]
EmptyDict == [x \in {} |-> 0]

\* a quotient num / den of two naturals, kept as the pair
Fraction(num, den) == [num |-> num, den |-> den]
Zero == Fraction(0, 1)

(***************************************************************************)
(* DispatcherSpace of benchmark_full_oracle.py: hashed states, capped at   *)
(* max_hits stored records.                                                *)
(***************************************************************************)
Space_init(max_hits) ==
    [max_hits |-> max_hits,
     api_dimensions |-> EmptyDict,
     hits |-> [a \in ApiNames |-> {}],
     theoretical_sizes |-> EmptyDict,
     total_records |-> 0,
     overflow_warnings |-> 0]

\* mutant: the theoretical size adds the domain sizes up
RECURSIVE SumOfSizes(_)
SumOfSizes(dimensions) ==
    IF Len(dimensions) = 0 THEN 0
    ELSE SumOfSizes(SubSeq(dimensions, 1, Len(dimensions) - 1))
             + Len(dimensions[Len(dimensions)].values)
Space_register_api_sum(s, api_name, dimensions) ==
    LET dims == IF dimensions.some THEN dimensions.val ELSE DEFAULT_DIMENSIONS
    IN  [s EXCEPT !.api_dimensions = Put(@, api_name, dims),
                  !.theoretical_sizes = Put(@, api_name, SumOfSizes(dims)),
                  !.hits = [@ EXCEPT ![api_name] = {}]]

\* register_api(api_name, dimensions=None)
Space_register_api(s, api_name, dimensions) ==
    LET dims == IF dimensions.some THEN dimensions.val ELSE DEFAULT_DIMENSIONS
    IN  [s EXCEPT !.api_dimensions = Put(@, api_name, dims),
                  !.theoretical_sizes = Put(@, api_name, ProductOfSizes(dims)),
                  !.hits = [@ EXCEPT ![api_name] = {}]]

\* the loop of record_hit over api.args.items() that fills dtypes_found
RECURSIVE DtypesFound(_)
DtypesFound(args) ==
    IF Len(args) = 0 THEN {}
    ELSE LET a == args[Len(args)].arg
             before == DtypesFound(SubSeq(args, 1, Len(args) - 1))
         IN  IF ~a.some THEN before
             ELSE IF a.val.dtype.some
                  THEN before \cup {ReplaceTorch(a.val.dtype.val)}
             ELSE IF a.val.type = "TORCH_DTYPE" /\ a.val.value.some
                  THEN before \cup {ReplaceTorch(a.val.value.val)}
             ELSE before

\* state_parts of record_hit: the device part, then one part per dtype
Space_state_parts(api, is_cuda) ==
    LET dtypes == Sorted(DtypesFound(api))
    IN  <<"dev=" \o (IF is_cuda THEN "cuda" ELSE "cpu")>>
            \o [i \in 1..Len(dtypes) |-> "d=" \o dtypes[i]]

\* mutant: the dtypes are kept in the order the arguments come in and the
\* parts are joined without sorting
RECURSIVE DtypesFoundInOrder(_)
DtypesFoundInOrder(args) ==
    IF Len(args) = 0 THEN <<>>
    ELSE LET a == args[Len(args)].arg
             before == DtypesFoundInOrder(SubSeq(args, 1, Len(args) - 1))
         IN  IF ~a.some THEN before
             ELSE IF a.val.dtype.some
                  THEN Append(before, "d=" \o ReplaceTorch(a.val.dtype.val))
             ELSE IF a.val.type = "TORCH_DTYPE" /\ a.val.value.some
                  THEN Append(before, "d=" \o ReplaceTorch(a.val.value.val))
             ELSE before
Space_state_hash_unsorted(api, is_cuda) ==
    Md5_12(JoinBar(<<"dev=" \o (IF is_cuda THEN "cuda" ELSE "cpu")>>
                       \o DtypesFoundInOrder(api)))

\* state_hash of record_hit
Space_state_hash(api, is_cuda) ==
    Md5_12(JoinBar(Sorted(Range(Space_state_parts(api, is_cuda)))))

\* mutant: the cap is tested with > in place of >=
Space_record_hit_latecap(s, api_name, api, is_cuda) ==
    LET s1 == IF api_name \notin DOMAIN s.api_dimensions
              THEN Space_register_api(s, api_name, None)
              ELSE s
        state_hash == Space_state_hash(api, is_cuda)
    IN  IF s1.total_records > s1.max_hits
        THEN [self |-> [s1 EXCEPT !.overflow_warnings = @ + 1], result |-> FALSE]
        ELSE IF Len(Space_state_parts(api, is_cuda)) <= 1
        THEN [self |-> s1, result |-> FALSE]
        ELSE IF state_hash \notin s1.hits[api_name]
        THEN [self |-> [s1 EXCEPT !.hits[api_name] = @ \cup {state_hash},
                                  !.total_records = @ + 1],
              result |-> TRUE]
        ELSE [self |-> s1, result |-> FALSE]

\* record_hit(api_name, api, is_cuda=False) -> bool
Space_record_hit(s, api_name, api, is_cuda) ==
    LET s1 == IF api_name \notin DOMAIN s.api_dimensions
              THEN Space_register_api(s, api_name, None)
              ELSE s
        state_hash == Space_state_hash(api, is_cuda)
    IN  IF s1.total_records >= s1.max_hits
        THEN [self |-> [s1 EXCEPT !.overflow_warnings = @ + 1], result |-> FALSE]
        ELSE IF Len(Space_state_parts(api, is_cuda)) <= 1
        THEN [self |-> s1, result |-> FALSE]
        ELSE IF state_hash \notin s1.hits[api_name]
        THEN [self |-> [s1 EXCEPT !.hits[api_name] = @ \cup {state_hash},
                                  !.total_records = @ + 1],
              result |-> TRUE]
        ELSE [self |-> s1, result |-> FALSE]

\* get_coverage(api_name) -> actual / theoretical
Space_get_coverage(s, api_name) ==
    IF api_name \notin DOMAIN s.theoretical_sizes THEN Zero
    ELSE IF s.theoretical_sizes[api_name] > 0
         THEN Fraction(Cardinality(s.hits[api_name]), s.theoretical_sizes[api_name])
         ELSE Zero

(***************************************************************************)
(* DispatcherSpace of benchmark_full_oracle_tc.py: one value per axis,     *)
(* kept as a frozenset of (axis, value) pairs.                             *)
(***************************************************************************)
HkgSpace_init ==
    [api_dimensions |-> EmptyDict,
     api_denominator |-> EmptyDict,
     api_hits |-> [a \in ApiNames |-> {}],
     total_record_calls |-> 0,
     total_unique_hits |-> 0,
     coverage_history |-> <<>>]

\* register_api(api_name, dimensions=None)
HkgSpace_register_api(s, api_name, dimensions) ==
    LET dims == IF dimensions.some THEN dimensions.val
                ELSE << [name |-> "dtype", values |-> DEFAULT_DTYPES],
                        [name |-> "device", values |-> DEFAULT_DEVICES] >>
    IN  [s EXCEPT !.api_dimensions = Put(@, api_name, dims),
                  !.api_denominator = Put(@, api_name, ProductOfSizes(dims))]

\* _extract_state_from_args(api) -> the state dict
RECURSIVE HkgSpace_extract_state_from_args(_)
HkgSpace_extract_state_from_args(args) ==
    IF Len(args) = 0
    THEN << <<"dtype", "unknown">>, <<"device", "cpu">>, <<"layout", "strided">> >>
    ELSE LET a == args[Len(args)].arg
             state == HkgSpace_extract_state_from_args(SubSeq(args, 1, Len(args) - 1))
         IN  IF ~a.some THEN state
             ELSE IF a.val.type = "TORCH_TENSOR"
                  THEN IF a.val.dtype.some
                       THEN Store(state, "dtype", SplitLast(a.val.dtype.val))
                       ELSE state
             ELSE IF a.val.type = "TORCH_DTYPE"
                  THEN IF a.val.value.some
                       THEN Store(state, "dtype", SplitLast(a.val.value.val))
                       ELSE state
             ELSE IF a.val.type = "TORCH_OBJECT" /\ a.val.value.some
                  THEN IF "memory_format" \in a.val.value.val
                       THEN IF "channels_last" \in a.val.value.val
                            THEN Store(state, "memory_format", "channels_last")
                            ELSE IF "contiguous" \in a.val.value.val
                            THEN Store(state, "memory_format", "contiguous_format")
                            ELSE state
                       ELSE state
             ELSE state

\* the loop of record_hit that builds filtered_state, in the order of the
\* registered dimensions
HkgSpace_filtered_state(dimensions, state_dict) ==
    [i \in 1..Len(dimensions) |->
        LET dim_name == dimensions[i].name
        IN  IF dim_name \in Keys(state_dict)
            THEN IF Lookup(state_dict, dim_name) \in Range(dimensions[i].values)
                 THEN <<dim_name, Lookup(state_dict, dim_name)>>
                 ELSE <<dim_name, "other">>
            ELSE <<dim_name, "unknown">>]

\* get_overall_coverage() -> sum of numerators / sum of denominators (* 100)
RECURSIVE SumOver(_, _)
SumOver(f, S) ==
    IF S = {} THEN 0
    ELSE LET x == CHOOSE y \in S : TRUE IN f[x] + SumOver(f, S \ {x})
HkgSpace_get_overall_coverage(s) ==
    LET registered == DOMAIN s.api_dimensions
        total_numerator == SumOver([a \in registered |-> Cardinality(s.api_hits[a])],
                                   registered)
        total_denominator == SumOver(s.api_denominator, registered)
    IN  IF total_denominator = 0 THEN Zero
        ELSE Fraction(total_numerator, total_denominator)

\* the state a call to record_hit records: state_dict when given, else the one
\* extracted from api, else the default one
HkgSpace_observed(api, state_dict) ==
    IF state_dict.some THEN state_dict.val
    ELSE IF api.some THEN HkgSpace_extract_state_from_args(api.val)
    ELSE << <<"dtype", "unknown">>, <<"device", "cpu">> >>

\* state_key of record_hit: frozenset(filtered_state.items())
HkgSpace_state_key(dimensions, api, state_dict) ==
    Range(HkgSpace_filtered_state(dimensions, HkgSpace_observed(api, state_dict)))

\* record_hit(api_name, api=None, state_dict=None, iteration=None) -> bool
HkgSpace_record_hit(s, api_name, api, state_dict, iteration) ==
    LET s1 == [s EXCEPT !.total_record_calls = @ + 1]
        s2 == IF api_name \notin DOMAIN s1.api_dimensions
              THEN HkgSpace_register_api(s1, api_name, None)
              ELSE s1
        state_key == HkgSpace_state_key(s2.api_dimensions[api_name], api, state_dict)
        is_new == state_key \notin s2.api_hits[api_name]
        s3 == IF is_new
              THEN [s2 EXCEPT !.api_hits[api_name] = @ \cup {state_key},
                              !.total_unique_hits = @ + 1]
              ELSE s2
        s4 == IF iteration.some
              THEN [s3 EXCEPT !.coverage_history =
                        Append(@, <<iteration.val, HkgSpace_get_overall_coverage(s3)>>)]
              ELSE s3
    IN  [self |-> s4, result |-> is_new]

\* get_coverage(api_name) -> (numerator, denominator, percentage)
HkgSpace_get_coverage(s, api_name) ==
    IF api_name \notin DOMAIN s.api_dimensions THEN Zero
    ELSE IF s.api_denominator[api_name] > 0
         THEN Fraction(Cardinality(s.api_hits[api_name]), s.api_denominator[api_name])
         ELSE Zero

(***************************************************************************)
(* Views of a DispatcherSpace that read the same in both scripts, and the  *)
(* combination (one value per axis) a call of record_hit is about.         *)
(***************************************************************************)
\* the per-target hit set: self.hits / self.api_hits
Hits(s, api_name) ==
    IF variant = "full" THEN s.hits[api_name] ELSE s.api_hits[api_name]

\* the per-target denominator: self.theoretical_sizes / self.api_denominator
Denominator(s, api_name) ==
    IF variant = "full" THEN s.theoretical_sizes[api_name]
    ELSE s.api_denominator[api_name]

\* get_coverage(api_name) of the running script
Coverage(s, api_name) ==
    IF variant = "full" THEN Space_get_coverage(s, api_name)
    ELSE HkgSpace_get_coverage(s, api_name)

\* the number of points of the cartesian product of the axis domains
CartesianSize(dimensions) ==
    LET names == {dimensions[i].name : i \in 1..Len(dimensions)}
        values == UNION {Range(dimensions[i].values) : i \in 1..Len(dimensions)}
    IN  Cardinality({f \in [names -> values] :
            \A i \in 1..Len(dimensions) :
                f[dimensions[i].name] \in Range(dimensions[i].values)})

\* the dtypes an api object carries: its tensors' and its dtype arguments'
ObservedDtypes(api) ==
    {api[i].arg.val.dtype.val[Len(api[i].arg.val.dtype.val)] :
        i \in {j \in 1..Len(api) : api[j].arg.some /\ api[j].arg.val.dtype.some}}
    \cup
    {api[i].arg.val.value.val[Len(api[i].arg.val.value.val)] :
        i \in {j \in 1..Len(api) : /\ api[j].arg.some
                                   /\ ~api[j].arg.val.dtype.some
                                   /\ api[j].arg.val.type = "TORCH_DTYPE"
                                   /\ api[j].arg.val.value.some}}

\* benchmark_full_oracle.py: what a call is about, the device and the dtypes
FullCombination(api, is_cuda) ==
    [device |-> IF is_cuda THEN "cuda" ELSE "cpu", dtypes |-> ObservedDtypes(api)]

\* benchmark_full_oracle_tc.py: what a call is about, one value per registered
\* axis: the observed one when in the axis domain, "other" when outside it,
\* "unknown" when the observation has no such axis
HkgCombination(dimensions, observed) ==
    [n \in {dimensions[i].name : i \in 1..Len(dimensions)} |->
        LET domain == Range(dimensions[CHOOSE i \in 1..Len(dimensions) :
                                           dimensions[i].name = n].values)
        IN  IF n \notin Keys(observed) THEN "unknown"
            ELSE IF Lookup(observed, n) \in domain THEN Lookup(observed, n)
            ELSE "other"]

\* the combination of the record_hit call r, made on the space that is now s
CallCombination(r, s) ==
    IF variant = "full" THEN FullCombination(r.api.val, r.is_cuda)
    ELSE HkgCombination(s.api_dimensions[r.api_name],
                        HkgSpace_observed(r.api, r.state_dict))

\* benchmark_full_oracle.py builds a state only of a call that carries a dtype
CallHasCombination(r) ==
    variant = "hkg" \/ ObservedDtypes(r.api.val) # {}

(***************************************************************************)
(* Text.  A str is a TLA+ string; At gives its i-th character.  The        *)
(* operators below are Python's str methods and the regular expressions    *)
(* of the two classes that read diagnostics, each written as the scan      *)
(* re.sub and re.findall make: leftmost match first, greedy quantifiers.   *)
(***************************************************************************)
At(s, i) == SubSeq(s, i, i)

DigitChars == {"0", "1", "2", "3", "4", "5", "6", "7", "8", "9"}
LowerChars == {"a", "b", "c", "d", "e", "f", "g", "h", "i", "j", "k", "l", "m",
               "n", "o", "p", "q", "r", "s", "t", "u", "v", "w", "x", "y", "z"}
UpperChars == {"A", "B", "C", "D", "E", "F", "G", "H", "I", "J", "K", "L", "M",
               "N", "O", "P", "Q", "R", "S", "T", "U", "V", "W", "X", "Y", "Z"}
\* [0-9a-fA-F]
HexChars == DigitChars \cup {"a", "b", "c", "d", "e", "f"}
                \cup {"A", "B", "C", "D", "E", "F"}
\* \w
WordChars == DigitChars \cup LowerChars \cup UpperChars \cup {"_"}
\* \s
SpaceChars == {" ", "\t", "\n", "\r", "\f"}

\* the index of the last character of the longest run of characters of
\* class that starts at i (i - 1 when s[i] is not of the class)
RECURSIVE RunEnd(_, _, _)
RunEnd(s, i, class) ==
    IF i <= Len(s) /\ At(s, i) \in class THEN RunEnd(s, i + 1, class) ELSE i - 1

\* s[i:].startswith(sub)
StartsAt(s, i, sub) ==
    i + Len(sub) - 1 <= Len(s) /\ SubSeq(s, i, i + Len(sub) - 1) = sub

\* s.find(sub, i), 1-based; 0 when there is none
RECURSIVE Find(_, _, _)
Find(s, sub, i) ==
    IF i + Len(sub) - 1 > Len(s) THEN 0
    ELSE IF StartsAt(s, i, sub) THEN i
    ELSE Find(s, sub, i + 1)

\* sub in s
Contains(s, sub) == Find(s, sub, 1) # 0

\* s.strip()
RECURSIVE LStrip(_)
LStrip(s) ==
    IF Len(s) > 0 /\ At(s, 1) \in SpaceChars THEN LStrip(SubSeq(s, 2, Len(s))) ELSE s
RECURSIVE RStrip(_)
RStrip(s) ==
    IF Len(s) > 0 /\ At(s, Len(s)) \in SpaceChars
    THEN RStrip(SubSeq(s, 1, Len(s) - 1)) ELSE s
Strip(s) == RStrip(LStrip(s))

\* s.split('\n')
RECURSIVE SplitLines(_)
SplitLines(s) ==
    LET n == Find(s, "\n", 1)
    IN  IF n = 0 THEN <<s>>
        ELSE <<SubSeq(s, 1, n - 1)>> \o SplitLines(SubSeq(s, n + 1, Len(s)))

\* s.lower()
LowerOf(c) ==
    IF c \in UpperChars
    THEN At("abcdefghijklmnopqrstuvwxyz", Find("ABCDEFGHIJKLMNOPQRSTUVWXYZ", c, 1))
    ELSE c
RECURSIVE Lower(_)
Lower(s) ==
    IF Len(s) = 0 THEN ""
    ELSE LowerOf(At(s, 1)) \o Lower(SubSeq(s, 2, Len(s)))

\* s[:n]
Prefix(s, n) == SubSeq(s, 1, Min(n, Len(s)))

\* re.sub(r'0x[0-9a-fA-F]+', 'ADDR', s), from position i on
RECURSIVE SubAddr(_, _)
SubAddr(s, i) ==
    IF i > Len(s) THEN ""
    ELSE IF StartsAt(s, i, "0x") /\ RunEnd(s, i + 2, HexChars) >= i + 2
    THEN "ADDR" \o SubAddr(s, RunEnd(s, i + 2, HexChars) + 1)
    ELSE At(s, i) \o SubAddr(s, i + 1)

\* \d+\.\d+ matches at i: the index of its last character, 0 when it does not
FloatEnd(s, i) ==
    LET j == RunEnd(s, i, DigitChars)
    IN  IF j >= i /\ StartsAt(s, j + 1, ".") /\ RunEnd(s, j + 2, DigitChars) >= j + 2
        THEN RunEnd(s, j + 2, DigitChars)
        ELSE 0

\* re.sub(r'\d+\.\d+', 'FLOAT', s), from position i on
RECURSIVE SubFloat(_, _)
SubFloat(s, i) ==
    IF i > Len(s) THEN ""
    ELSE IF FloatEnd(s, i) # 0
    THEN "FLOAT" \o SubFloat(s, FloatEnd(s, i) + 1)
    ELSE At(s, i) \o SubFloat(s, i + 1)

\* re.sub(r'(?<!\w)\d+(?!\w)', 'INT', s), from position i on
RECURSIVE SubLoneInt(_, _)
SubLoneInt(s, i) ==
    IF i > Len(s) THEN ""
    ELSE LET j == RunEnd(s, i, DigitChars)
         IN  IF /\ j >= i
                /\ (i = 1 \/ At(s, i - 1) \notin WordChars)
                /\ (j = Len(s) \/ At(s, j + 1) \notin WordChars)
             THEN "INT" \o SubLoneInt(s, j + 1)
             ELSE At(s, i) \o SubLoneInt(s, i + 1)

\* re.sub(r'\d+', 'INT', s), from position i on
RECURSIVE SubInt(_, _)
SubInt(s, i) ==
    IF i > Len(s) THEN ""
    ELSE IF RunEnd(s, i, DigitChars) >= i
    THEN "INT" \o SubInt(s, RunEnd(s, i, DigitChars) + 1)
    ELSE At(s, i) \o SubInt(s, i + 1)

\* re.sub(r'\[.*?\]', '[SHAPE]', s), from position i on; . stops at a newline
RECURSIVE SubShape(_, _)
SubShape(s, i) ==
    IF i > Len(s) THEN ""
    ELSE LET close == Find(s, "]", i + 1)
             newline == Find(s, "\n", i + 1)
         IN  IF At(s, i) = "[" /\ close # 0 /\ (newline = 0 \/ close < newline)
             THEN "[SHAPE]" \o SubShape(s, close + 1)
             ELSE At(s, i) \o SubShape(s, i + 1)

\* the first j >= i with s[j] = ':' and a digit after it, no newline between
\* i and j; 0 when there is none
RECURSIVE ColonDigit(_, _)
ColonDigit(s, i) ==
    IF i > Len(s) \/ At(s, i) = "\n" THEN 0
    ELSE IF At(s, i) = ":" /\ RunEnd(s, i + 1, DigitChars) >= i + 1 THEN i
    ELSE ColonDigit(s, i + 1)

\* re.sub(r'at .*?:\d+', 'at FILE:LINE', s), from position i on
RECURSIVE SubFileLine(_, _)
SubFileLine(s, i) ==
    IF i > Len(s) THEN ""
    ELSE IF StartsAt(s, i, "at ") /\ ColonDigit(s, i + 3) # 0
    THEN "at FILE:LINE"
             \o SubFileLine(s, RunEnd(s, ColonDigit(s, i + 3) + 1, DigitChars) + 1)
    ELSE At(s, i) \o SubFileLine(s, i + 1)

\* re.sub(r'\s+', ' ', s), from position i on
RECURSIVE SubSpaces(_, _)
SubSpaces(s, i) ==
    IF i > Len(s) THEN ""
    ELSE IF At(s, i) \in SpaceChars
    THEN " " \o SubSpaces(s, RunEnd(s, i, SpaceChars) + 1)
    ELSE At(s, i) \o SubSpaces(s, i + 1)

(***************************************************************************)
(* RealTimeBugDeduplicator (benchmark_full_oracle.py).                     *)
(***************************************************************************)
SignatureLimit == 200
ErrorLimit == 300

Buckets == {"crash", "cuda", "precision"}

Dedup_init(max_signatures) ==
    [max_signatures |-> max_signatures,
     signatures |-> [b \in Buckets |-> {}],
     first_occurrence |-> EmptyDict,
     total_bugs |-> [b \in Buckets |-> 0],
     unique_bugs |-> [b \in Buckets |-> 0]]

\* any(kw in line for kw in ['Error:', 'Exception:', 'INTERNAL ASSERT'])
HasErrorMarker(line) ==
    \E kw \in {"Error:", "Exception:", "INTERNAL ASSERT"} : Contains(line, kw)

\* core_msg of get_signature: the last line that carries a marker, else the
\* last line
CoreMessage(lines) ==
    LET marked == {i \in 1..Len(lines) : HasErrorMarker(lines[i])}
    IN  IF marked = {} THEN lines[Len(lines)]
        ELSE lines[CHOOSE i \in marked : \A j \in marked : j <= i]

\* mutant: the integers are left as they are
CleanPatterns_keepint(s) ==
    LET addr == SubAddr(s, 1)
        float == SubFloat(addr, 1)
        shape == SubShape(float, 1)
        fileline == SubFileLine(shape, 1)
    IN  SubSpaces(fileline, 1)

\* the CLEAN_PATTERNS of RealTimeBugDeduplicator, applied in their order
CleanPatterns(s) ==
    LET addr == SubAddr(s, 1)
        float == SubFloat(addr, 1)
        int == SubLoneInt(float, 1)
        shape == SubShape(int, 1)
        fileline == SubFileLine(shape, 1)
    IN  SubSpaces(fileline, 1)

\* get_signature(error_msg) -> str
Dedup_get_signature(error_msg) ==
    IF error_msg = "" THEN "UNKNOWN"
    ELSE LET lines == SplitLines(Strip(error_msg))
             clean_msg == CleanPatterns(CoreMessage(lines))
         IN  IF Contains(error_msg, "Segmentation fault") THEN "SEGFAULT"
             ELSE Prefix(Strip(clean_msg), SignatureLimit)

(***************************************************************************)
(* The diagnostics the model hands to the classes that read them: a frame  *)
(* of text with one place that takes a decimal number or an address.       *)
(***************************************************************************)
Numbers == {"3", "42", "1.5"}
Addresses == {"0x7f1a", "0x55E0"}

Frames ==
    {[before |-> "Traceback:\nValueError: invalid size ",
      after |-> " for  [2, 3]\n   at run.py:7 \n", takes |-> "number"],
     [before |-> "RuntimeError: expected ", after |-> "D tensor", takes |-> "number"],
     [before |-> "INTERNAL ASSERT FAILED at ", after |-> "", takes |-> "address"],
     [before |-> "Segmentation fault at ", after |-> " (core dumped)",
      takes |-> "address"]}

Diagnostics ==
    {[frame |-> f, value |-> v] :
        f \in {g \in Frames : g.takes = "number"}, v \in Numbers}
    \cup {[frame |-> f, value |-> v] :
        f \in {g \in Frames : g.takes = "address"}, v \in Addresses}

\* the text of a diagnostic
Render(d) == d.frame.before \o d.value \o d.frame.after

ErrorMessages == {""} \cup {Render(d) : d \in Diagnostics}

OracleTypes == {"crash", "CUDA", "timeout"}

\* get_signature on the texts of the model, worked out once
KnownSignatures == [m \in ErrorMessages |-> Dedup_get_signature(m)]
SignatureOf(error_msg) ==
    IF error_msg \in ErrorMessages THEN KnownSignatures[error_msg]
    ELSE Dedup_get_signature(error_msg)

\* the bucket record_bug files oracle_type under
Dedup_bucket(d, oracle_type) ==
    IF Lower(oracle_type) \in DOMAIN d.signatures THEN Lower(oracle_type) ELSE "crash"

\* mutant: a signature that is stored already is stored and counted again
Dedup_record_bug_nodup(d, oracle_type, error_msg, iteration) ==
    LET bucket == Dedup_bucket(d, oracle_type)
        d1 == [d EXCEPT !.total_bugs[bucket] = @ + 1]
        signature == SignatureOf(error_msg)
        sig_hash == Md5_12(signature)
    IN  IF Cardinality(d1.signatures[bucket]) >= d1.max_signatures
        THEN [self |-> d1, is_new |-> FALSE, signature |-> signature]
        ELSE [self |-> [d1 EXCEPT
                          !.signatures[bucket] = @ \cup {sig_hash},
                          !.unique_bugs[bucket] = @ + 1,
                          !.first_occurrence = Put(@, sig_hash,
                              [oracle |-> bucket, signature |-> signature,
                               iteration |-> iteration,
                               error |-> Prefix(error_msg, ErrorLimit)])],
              is_new |-> TRUE, signature |-> signature]

\* mutant: the capacity is tested with > in place of >=
Dedup_record_bug_latecap(d, oracle_type, error_msg, iteration) ==
    LET bucket == Dedup_bucket(d, oracle_type)
        d1 == [d EXCEPT !.total_bugs[bucket] = @ + 1]
        signature == SignatureOf(error_msg)
        sig_hash == Md5_12(signature)
    IN  IF sig_hash \in d1.signatures[bucket]
        THEN [self |-> d1, is_new |-> FALSE, signature |-> signature]
        ELSE IF Cardinality(d1.signatures[bucket]) > d1.max_signatures
        THEN [self |-> d1, is_new |-> FALSE, signature |-> signature]
        ELSE [self |-> [d1 EXCEPT
                          !.signatures[bucket] = @ \cup {sig_hash},
                          !.unique_bugs[bucket] = @ + 1,
                          !.first_occurrence = Put(@, sig_hash,
                              [oracle |-> bucket, signature |-> signature,
                               iteration |-> iteration,
                               error |-> Prefix(error_msg, ErrorLimit)])],
              is_new |-> TRUE, signature |-> signature]

\* record_bug(oracle_type, error_msg, iteration=0) -> (is_new, signature)
Dedup_record_bug(d, oracle_type, error_msg, iteration) ==
    LET bucket == Dedup_bucket(d, oracle_type)
        d1 == [d EXCEPT !.total_bugs[bucket] = @ + 1]
        signature == SignatureOf(error_msg)
        sig_hash == Md5_12(signature)
    IN  IF sig_hash \in d1.signatures[bucket]
        THEN [self |-> d1, is_new |-> FALSE, signature |-> signature]
        ELSE IF Cardinality(d1.signatures[bucket]) >= d1.max_signatures
        THEN [self |-> d1, is_new |-> FALSE, signature |-> signature]
        ELSE [self |-> [d1 EXCEPT
                          !.signatures[bucket] = @ \cup {sig_hash},
                          !.unique_bugs[bucket] = @ + 1,
                          !.first_occurrence = Put(@, sig_hash,
                              [oracle |-> bucket, signature |-> signature,
                               iteration |-> iteration,
                               error |-> Prefix(error_msg, ErrorLimit)])],
              is_new |-> TRUE, signature |-> signature]

(***************************************************************************)
(* BugAnalyzer (benchmark_full_oracle.py): the fingerprint of a bug file   *)
(* and the category classify_bug derives from it.                          *)
(***************************************************************************)

\* [a-z0-9]
LowerAlnumChars == LowerChars \cup DigitChars

\* r'dtype\s*=\s*(torch\.[a-z0-9]+)' matches at i: the first and the last
\* index of its group, <<0, 0>> when it does not
DtypeGroupAt(s, i) ==
    IF ~StartsAt(s, i, "dtype") THEN <<0, 0>>
    ELSE LET eq == RunEnd(s, i + 5, SpaceChars) + 1
         IN  IF ~StartsAt(s, eq, "=") THEN <<0, 0>>
             ELSE LET g == RunEnd(s, eq + 1, SpaceChars) + 1
                      last == RunEnd(s, g + 6, LowerAlnumChars)
                  IN  IF StartsAt(s, g, "torch.") /\ last >= g + 6
                      THEN <<g, last>>
                      ELSE <<0, 0>>

\* re.findall(r'dtype\s*=\s*(torch\.[a-z0-9]+)', s), from position i on
RECURSIVE FindDtypes(_, _)
FindDtypes(s, i) ==
    IF i > Len(s) THEN <<>>
    ELSE LET g == DtypeGroupAt(s, i)
         IN  IF g[1] # 0
             THEN <<SubSeq(s, g[1], g[2])>> \o FindDtypes(s, g[2] + 1)
             ELSE FindDtypes(s, i + 1)

\* r'torch\.rand(?:int)?\s*\(\s*[\[\(]([^\]\)]+)[\]\)]' matches at i: the
\* first and the last index of its group, <<0, 0>> when it does not
ShapeGroupAt(s, i) ==
    IF ~StartsAt(s, i, "torch.rand") THEN <<0, 0>>
    ELSE LET name == IF StartsAt(s, i + 10, "int") THEN i + 13 ELSE i + 10
             paren == RunEnd(s, name, SpaceChars) + 1
             open == RunEnd(s, paren + 1, SpaceChars) + 1
             closers == {k \in open + 2..Len(s) : At(s, k) \in {"]", ")"}}
         IN  IF /\ StartsAt(s, paren, "(")
                /\ open <= Len(s)
                /\ At(s, open) \in {"[", "("}
                /\ open + 1 <= Len(s)
                /\ At(s, open + 1) \notin {"]", ")"}
                /\ closers # {}
             THEN <<open + 1, (CHOOSE k \in closers : \A j \in closers : k <= j) - 1>>
             ELSE <<0, 0>>

\* re.findall(r'torch\.rand...', s), from position i on
RECURSIVE FindShapes(_, _)
FindShapes(s, i) ==
    IF i > Len(s) THEN <<>>
    ELSE LET g == ShapeGroupAt(s, i)
         IN  IF g[1] # 0
             THEN <<SubSeq(s, g[1], g[2])>> \o FindShapes(s, g[2] + 2)
             ELSE FindShapes(s, i + 1)

\* s.count(c) for a character c
CountChar(s, c) == Cardinality({k \in 1..Len(s) : At(s, k) = c})

\* str(n) for the small naturals of the model
DecimalOf(n) ==
    IF n < 10 THEN At("0123456789", n + 1)
    ELSE At("0123456789", (n \div 10) + 1) \o At("0123456789", (n % 10) + 1)

\* re.search(r'\bword\b', s, re.IGNORECASE) finds something
HasWord(s, word) ==
    LET low == Lower(s)
    IN  \E k \in 1..Len(low) :
            /\ StartsAt(low, k, word)
            /\ k = 1 \/ At(low, k - 1) \notin WordChars
            /\ k + Len(word) > Len(low) \/ At(low, k + Len(word)) \notin WordChars

\* ",".join(parts)
RECURSIVE JoinComma(_)
JoinComma(parts) ==
    IF Len(parts) = 0 THEN ""
    ELSE IF Len(parts) = 1 THEN parts[1]
    ELSE parts[1] \o "," \o JoinComma(Tail(parts))

\* the contents of bug files: diagnostics, and the code of a failing call
CodeTexts ==
    {"x = torch.rand([2, 3], dtype=torch.float32)\n# segfault on exit",
     "y = torch.randint( (4,), dtype = torch.int8)  # nan inf core_dump",
     "segfault in cuda kernel launch",
     "z = f(dtype=torch.segfault)",
     "t = g(dtype=torch.cuda)"}

Contents == ErrorMessages \cup CodeTexts

\* hashlib.md5(content.encode()).hexdigest()[:12] as the text that is
\* printed: twelve hexadecimal digits, one value per text of the model
RECURSIVE HexOf(_, _)
HexOf(n, width) ==
    IF width = 0 THEN ""
    ELSE HexOf(n \div 16, width - 1) \o At("0123456789abcdef", (n % 16) + 1)
RECURSIVE Enumerate(_)
Enumerate(S) ==
    IF S = {} THEN <<>>
    ELSE LET x == CHOOSE y \in S : TRUE IN <<x>> \o Enumerate(S \ {x})
KnownTexts == Enumerate(Contents)
HexDigest_12(content) ==
    HexOf(CHOOSE k \in 1..Len(KnownTexts) : KnownTexts[k] = content, 12)

\* BugAnalyzer.get_signature(content) -> str
Analyzer_get_signature(content) ==
    IF content = "" THEN "unknown_empty"
    ELSE LET dtype_matches == FindDtypes(content, 1)
             shape_matches == FindShapes(content, 1)
             dtypes == IF Len(dtype_matches) > 0
                       THEN <<"dtype=" \o JoinComma(Sorted(Range(dtype_matches)))>>
                       ELSE <<>>
             ndims == IF Len(shape_matches) > 0
                      THEN <<"ndim=" \o DecimalOf(CountChar(shape_matches[1], ",") + 1)>>
                      ELSE <<>>
             nan == IF HasWord(content, "nan") THEN <<"NaN">> ELSE <<>>
             inf == IF HasWord(content, "inf") THEN <<"Inf">> ELSE <<>>
             \* sorted(features): capitals come before small letters
             features == inf \o nan \o dtypes \o ndims
         IN  IF Len(features) = 0 THEN "hash=" \o HexDigest_12(content)
             ELSE JoinBar(features)

\* BugAnalyzer.classify_bug(error_msg) -> str
Analyzer_classify_bug(error_msg) ==
    LET sig == Lower(Analyzer_get_signature(error_msg))
    IN  IF Contains(sig, "segfault") \/ Contains(sig, "core_dump")
        THEN "CRITICAL_SEGFAULT"
        ELSE IF \E k \in {"cuda", "kernel", "launch", "cublas", "cudnn", "internal",
                          "assert"} : Contains(sig, k)
        THEN "DEEP_INTERNAL"
        ELSE IF \E k \in {"type", "shape", "dim", "expect", "got", "invalid",
                          "implement"} : Contains(sig, k)
        THEN "SHALLOW_CHECK"
        ELSE "RUNTIME_OTHER"

\* classify_bug on the texts of the model, worked out once
KnownCategories ==
    [m \in Contents |->
        [signature |-> Analyzer_get_signature(m), category |-> Analyzer_classify_bug(m)]]

(***************************************************************************)
(* CheckpointManager (benchmark_full_oracle.py).  The disk is a dict from  *)
(* file names to contents; a content is the sequence of records a writer   *)
(* has put into the file so far.                                           *)
(***************************************************************************)

\* s.replace(old, new), from position i on
RECURSIVE Replace(_, _, _, _)
Replace(s, old, new, i) ==
    IF i > Len(s) THEN ""
    ELSE IF StartsAt(s, i, old) THEN new \o Replace(s, old, new, i + Len(old))
    ELSE At(s, i) \o Replace(s, old, new, i + 1)

\* __init__(checkpoint_dir, strategy, api_name)
Checkpoint_init(strategy, api_name) ==
    LET name == Replace(Replace(api_name, ".", "_", 1), "::", "_", 1)
    IN  [strategy |-> strategy,
         api_name |-> name,
         checkpoint_file |-> name \o "_" \o strategy \o "_checkpoint.pkl",
         metadata_file |-> name \o "_" \o strategy \o "_metadata.json"]

\* mutant: save writes into the checkpoint file itself
TempFile_inplace(m) == m.checkpoint_file

\* temp_file = self.checkpoint_file.with_suffix('.tmp')
TempFile(m) ==
    SubSeq(m.checkpoint_file, 1, Len(m.checkpoint_file) - 4) \o ".tmp"

\* checkpoint_data of save
CheckpointData(m, iteration, coverage_kernels, corpus_seeds, logger_iterations) ==
    [iteration |-> iteration,
     coverage_kernels |-> coverage_kernels,
     corpus_seeds |-> corpus_seeds,
     logger_iterations |-> logger_iterations,
     strategy |-> m.strategy,
     api_name |-> m.api_name]

\* mutant: the seeds are written as a set, which keeps no order
Pickle_dumps_seedset(data) ==
    <<[op |-> "PROTO", arg |-> <<>>],
      [op |-> "iteration", arg |-> <<data.iteration>>],
      [op |-> "coverage_kernels", arg |-> Enumerate(data.coverage_kernels)],
      [op |-> "corpus_seeds",
       arg |-> IF data.corpus_seeds.some
               THEN <<Enumerate(Range(data.corpus_seeds.val))>> ELSE <<>>],
      [op |-> "logger_iterations", arg |-> <<data.logger_iterations>>],
      [op |-> "strategy", arg |-> <<data.strategy>>],
      [op |-> "api_name", arg |-> <<data.api_name>>],
      [op |-> "STOP", arg |-> <<>>]>>

\* pickle.dump(checkpoint_data, f): what is written, item after item, the
\* set as its elements in some order, the STOP opcode last
Pickle_dumps(data) ==
    <<[op |-> "PROTO", arg |-> <<>>],
      [op |-> "iteration", arg |-> <<data.iteration>>],
      [op |-> "coverage_kernels", arg |-> Enumerate(data.coverage_kernels)],
      [op |-> "corpus_seeds",
       arg |-> IF data.corpus_seeds.some THEN <<data.corpus_seeds.val>> ELSE <<>>],
      [op |-> "logger_iterations", arg |-> <<data.logger_iterations>>],
      [op |-> "strategy", arg |-> <<data.strategy>>],
      [op |-> "api_name", arg |-> <<data.api_name>>],
      [op |-> "STOP", arg |-> <<>>]>>

\* pickle.load(f): the object of a whole pickle; a pickle that does not end
\* in STOP raises, which is None here
Pickle_loads(content) ==
    IF Len(content) = 0 \/ content[Len(content)].op # "STOP" THEN None
    ELSE Some([iteration |-> content[2].arg[1],
               coverage_kernels |-> Range(content[3].arg),
               corpus_seeds |-> IF Len(content[4].arg) = 0 THEN None
                                ELSE Some(content[4].arg[1]),
               logger_iterations |-> content[5].arg[1],
               strategy |-> content[6].arg[1],
               api_name |-> content[7].arg[1]])

\* the steps of save, each one call that touches the disk
\* with open(temp_file, 'wb') as f: the file is created or truncated
Save_open(m, files) == Put(files, TempFile(m), <<>>)

\* pickle.dump(checkpoint_data, f), as far as the first n items
Save_dump(m, files, data, n) == Put(files, TempFile(m), SubSeq(Pickle_dumps(data), 1, n))

\* temp_file.replace(self.checkpoint_file): one rename
Save_replace(m, files) ==
    [f \in ((DOMAIN files) \ {TempFile(m)}) \cup {m.checkpoint_file} |->
        IF f = m.checkpoint_file THEN files[TempFile(m)] ELSE files[f]]

\* metadata of save, and json.dump(metadata, f) into the metadata file
Metadata(data) ==
    [iteration |-> data.iteration,
     total_kernels |-> Cardinality(data.coverage_kernels),
     corpus_size |-> IF data.corpus_seeds.some /\ Len(data.corpus_seeds.val) > 0
                     THEN Len(data.corpus_seeds.val) ELSE 0,
     logger_iterations |-> data.logger_iterations,
     strategy |-> data.strategy]
Save_metadata(m, files, data) == Put(files, m.metadata_file, <<Metadata(data)>>)

\* where an exception can come up in save
SaveFaults == {"none", "open", "dump", "replace", "metadata"}

\* save(iteration, coverage_kernels, corpus_seeds, logger_iterations) -> bool,
\* with the call that raises (none for a save that goes through) and, for a
\* dump that raises, the items written before it did
Checkpoint_save(m, files, iteration, coverage_kernels, corpus_seeds, logger_iterations, fault, written) ==
    LET data == CheckpointData(m, iteration, coverage_kernels, corpus_seeds,
                               logger_iterations)
        opened == Save_open(m, files)
        dumped == Save_dump(m, opened, data, Len(Pickle_dumps(data)))
        replaced == Save_replace(m, dumped)
    IN  CASE fault = "open" -> [disk |-> files, result |-> FALSE]
          [] fault = "dump" ->
                [disk |-> Save_dump(m, opened, data, written), result |-> FALSE]
          [] fault = "replace" -> [disk |-> dumped, result |-> FALSE]
          [] fault = "metadata" ->
                [disk |-> Put(replaced, m.metadata_file, <<>>), result |-> FALSE]
          [] OTHER -> [disk |-> Save_metadata(m, replaced, data), result |-> TRUE]

\* exists()
Checkpoint_exists(m, files) == m.checkpoint_file \in DOMAIN files

\* mutant: a load that raises hands on the dict of an empty state
Checkpoint_load_stale(m, files, raises) ==
    IF ~Checkpoint_exists(m, files) THEN None
    ELSE IF raises THEN Some(CheckpointData(m, 0, {}, None, 0))
    ELSE Pickle_loads(files[m.checkpoint_file])

\* load() -> Optional[Dict]; raises says that open or read raised
Checkpoint_load(m, files, raises) ==
    IF ~Checkpoint_exists(m, files) THEN None
    ELSE IF raises THEN None
    ELSE Pickle_loads(files[m.checkpoint_file])

\* clear()
Checkpoint_clear(m, files) ==
    [f \in (DOMAIN files) \ {m.checkpoint_file, m.metadata_file} |-> files[f]]

\* the states a driver saves: a cold one and a grown one per iteration
SavedStates ==
    {[iteration |-> i, coverage_kernels |-> {}, corpus_seeds |-> None] :
        i \in 0..MaxSavedIter}
    \cup {[iteration |-> i, coverage_kernels |-> Tokens,
           corpus_seeds |-> Some(<<"api2", "api1">>)] : i \in 0..MaxSavedIter}

\* how much of a pickle can be in the file when the writer stops half way:
\* nothing yet, or a part of it (every part lacks the STOP at the end)
PartsWritten(data) == {0, Len(Pickle_dumps(data)) \div 2}

(***************************************************************************)
(* Floating point.  warmup_ratio is a Python float, a binary64 number, and *)
(* max_iterations * warmup_ratio is one binary64 multiplication.  A number *)
(* is a sequence of at most Precision bits, the highest first, and an      *)
(* exponent: the value is bits * 2^exp.  A ratio is written in hundredths. *)
(***************************************************************************)
Precision == 53

RECURSIVE LeadingZeros(_, _)
\* how many binary places of r / q are 0 before the first 1 (0 < r < q)
LeadingZeros(r, q) == IF 2 * r >= q THEN 0 ELSE 1 + LeadingZeros(2 * r, q)

RECURSIVE ExpandBits(_, _, _, _)
\* the next k binary places of r / q after acc, and what is left of r
ExpandBits(r, q, k, acc) ==
    IF k = 0 THEN [bits |-> acc, rem |-> r]
    ELSE IF 2 * r >= q THEN ExpandBits(2 * r - q, q, k - 1, Append(acc, 1))
         ELSE ExpandBits(2 * r, q, k - 1, Append(acc, 0))

RECURSIVE Increment(_)
\* bits + 1
Increment(bits) ==
    IF Len(bits) = 0 THEN <<1>>
    ELSE IF bits[Len(bits)] = 0
         THEN SubSeq(bits, 1, Len(bits) - 1) \o <<1>>
         ELSE Increment(SubSeq(bits, 1, Len(bits) - 1)) \o <<0>>

\* bits * 2^exp (and something more below, if sticky) rounded to Precision
\* bits, to the nearest, a tie to the even one
RoundToNearestEven(bits, exp, sticky) ==
    IF Len(bits) <= Precision THEN [bits |-> bits, exp |-> exp]
    ELSE LET kept == SubSeq(bits, 1, Precision)
             guard == bits[Precision + 1]
             below == sticky \/ \E i \in Precision + 2..Len(bits) : bits[i] = 1
             up == guard = 1 /\ (below \/ kept[Precision] = 1)
             raised == IF up THEN Increment(kept) ELSE kept
             e == exp + Len(bits) - Precision
         IN  IF Len(raised) > Precision
             THEN [bits |-> SubSeq(raised, 1, Precision), exp |-> e + 1]
             ELSE [bits |-> raised, exp |-> e]

FloatZero == [bits |-> <<>>, exp |-> 0]

\* float("p/q" written as a decimal), for 0 <= p <= q: the nearest binary64
FloatOf(p, q) ==
    IF p = 0 THEN FloatZero
    ELSE IF p = q THEN [bits |-> <<1>> \o [i \in 1..Precision - 1 |-> 0],
                        exp |-> 1 - Precision]
    ELSE LET z == LeadingZeros(p, q)
             x == ExpandBits(p * 2^z, q, Precision + 1, <<>>)
         IN  RoundToNearestEven(x.bits, 0 - (z + Precision + 1), x.rem > 0)

RECURSIVE BinaryOf(_)
BinaryOf(n) == IF n = 0 THEN <<>> ELSE BinaryOf(n \div 2) \o <<n % 2>>

RECURSIVE MulFrom(_, _, _, _, _)
\* n * bits, from the lowest bit up
MulFrom(bits, n, i, carry, acc) ==
    IF i = 0 THEN BinaryOf(carry) \o acc
    ELSE MulFrom(bits, n, i - 1, (n * bits[i] + carry) \div 2,
                 <<(n * bits[i] + carry) % 2>> \o acc)

\* n * x for an int n >= 0 and a float x: the exact product, rounded
FloatMulInt(n, x) ==
    IF n = 0 \/ x = FloatZero THEN FloatZero
    ELSE RoundToNearestEven(MulFrom(x.bits, n, Len(x.bits), 0, <<>>), x.exp, FALSE)

RECURSIVE IntOfBits(_)
IntOfBits(bits) ==
    IF Len(bits) = 0 THEN 0
    ELSE 2 * IntOfBits(SubSeq(bits, 1, Len(bits) - 1)) + bits[Len(bits)]

\* int(x) for a float x >= 0: the places after the point are cut off
IntOfFloat(x) ==
    IF x = FloatZero \/ Len(x.bits) + x.exp <= 0 THEN 0
    ELSE IntOfBits(SubSeq(x.bits, 1, Len(x.bits) + x.exp))

(***************************************************************************)
(* EnhancedFuzzer.run_fuzzing_loop (benchmark_full_oracle.py) and          *)
(* HKGFuzzEngine.run (benchmark_full_oracle_tc.py): the parts of the loop  *)
(* that are functions of what they are given.                              *)
(***************************************************************************)
Hundredths == 100

\* self.warmup_threshold = int(max_iterations * self.warmup_ratio)
WarmupThreshold(max_iterations, warmup_ratio) ==
    IntOfFloat(FloatMulInt(max_iterations, FloatOf(warmup_ratio, Hundredths)))

\* random.random() < 0.7, and self.epsilon = 0.1 of HKGFuzzEngine, in hundredths
CorpusShare == 70
HkgEpsilon == 10

\* mutant: the corpus is chosen on the draw alone, populated or not
SelectSource_unsized(i, warmup_threshold, enable_patches, m, c, r, q) ==
    IF i < warmup_threshold
    THEN [controller |-> m, phase |-> "warmup", source |-> "warmup_random",
          asked |-> FALSE, consulted |-> FALSE, explore |-> FALSE]
    ELSE LET e == IF enable_patches THEN Controller_should_explore(m, r)
                  ELSE [self |-> m, result |-> FALSE]
         IN  IF e.result
             THEN [controller |-> e.self, phase |-> "evolution",
                   source |-> "exploration", asked |-> enable_patches,
                   consulted |-> FALSE, explore |-> TRUE]
             ELSE IF enable_patches /\ q < CorpusShare
             THEN [controller |-> e.self, phase |-> "evolution",
                   source |-> "corpus", asked |-> enable_patches,
                   consulted |-> enable_patches, explore |-> FALSE]
             ELSE [controller |-> e.self, phase |-> "evolution",
                   source |-> "random", asked |-> enable_patches,
                   consulted |-> enable_patches, explore |-> FALSE]

\* the source of iteration i and what was asked to find it; r and q are the
\* values the two random.random() calls return (when they are made), and
\* enable_patches tells whether the constructor built a controller and a
\* corpus (both, or neither)
SelectSource(i, warmup_threshold, enable_patches, m, c, r, q) ==
    IF i < warmup_threshold
    THEN [controller |-> m, phase |-> "warmup", source |-> "warmup_random",
          asked |-> FALSE, consulted |-> FALSE, explore |-> FALSE]
    ELSE LET e == IF enable_patches THEN Controller_should_explore(m, r)
                  ELSE [self |-> m, result |-> FALSE]
         IN  IF e.result
             THEN [controller |-> e.self, phase |-> "evolution",
                   source |-> "exploration", asked |-> enable_patches,
                   consulted |-> FALSE, explore |-> TRUE]
             ELSE IF enable_patches /\ Corpus_size(c) > 0 /\ q < CorpusShare
             THEN [controller |-> e.self, phase |-> "evolution",
                   source |-> "corpus", asked |-> enable_patches,
                   consulted |-> enable_patches, explore |-> FALSE]
             ELSE [controller |-> e.self, phase |-> "evolution",
                   source |-> "random", asked |-> enable_patches,
                   consulted |-> enable_patches, explore |-> FALSE]

\* the same of HKGFuzzEngine: _warmup_iteration or _evolution_iteration
HkgSelectSource(i, warmup_end_iteration, c, r, q) ==
    IF i < warmup_end_iteration
    THEN [phase |-> "warmup", source |-> "random",
          asked |-> FALSE, consulted |-> FALSE, explore |-> FALSE]
    ELSE IF r < HkgEpsilon
    THEN [phase |-> "evolution", source |-> "exploration",
          asked |-> TRUE, consulted |-> FALSE, explore |-> TRUE]
    ELSE IF Corpus_size(c) > 0 /\ q < CorpusShare
    THEN [phase |-> "evolution", source |-> "corpus",
          asked |-> TRUE, consulted |-> TRUE, explore |-> FALSE]
    ELSE [phase |-> "evolution", source |-> "random",
          asked |-> TRUE, consulted |-> TRUE, explore |-> FALSE]

\* the seeds the candidate of a pass can be a deepcopy of: those
\* select_parent() can return when the source is the corpus (for
\* HKGFuzzEngine._generate_test_case, when the corpus has a seed as well);
\* None stands for the candidate that is no copy
Parents(source, populated, choices, c) ==
    IF source = "corpus" /\ populated /\ choices # {}
    THEN {Some(c.corpus[k]) : k \in choices}
    ELSE {None}

\* mutant: the loop starts again at the iteration of the checkpoint
StartIteration_same(checkpoint_data) == checkpoint_data.iteration

\* start_iteration = checkpoint_data['iteration'] + 1
StartIteration(checkpoint_data) == checkpoint_data.iteration + 1

\* mutant: the candidate of every pass that got to the update is admitted
Admits_any(new_count) == new_count >= 0

\* `if new_count > 0 and self.corpus:` (`if new_count > 0:` in HKGFuzzEngine)
Admits(new_count) == new_count > 0

\* mutant: the loop runs to max_iterations inclusive
InRange_inclusive(i, max_iterations) == i <= max_iterations

\* `for i in range(start_iteration, max_iterations)`: i is an index of the loop
InRange(i, max_iterations) == i < max_iterations

\* `if checkpoint_data:` of run_fuzzing_loop, with what load() returned: the
\* tracker, the corpus, the logger's counter and the first index of the loop
Resume(t, c, logger_iterations, loaded) ==
    IF ~loaded.some
    THEN [coverage |-> t, corpus |-> c, logger_iterations |-> logger_iterations,
          start_iteration |-> 0]
    ELSE LET data == loaded.val
         IN  [coverage |-> [t EXCEPT
                  !.all_kernels = data.coverage_kernels,
                  !.history = << <<data.iteration,
                                   Cardinality(data.coverage_kernels)>> >>],
              corpus |-> IF data.corpus_seeds.some /\ Len(data.corpus_seeds.val) > 0
                         THEN [c EXCEPT !.corpus = data.corpus_seeds.val]
                         ELSE c,
              logger_iterations |-> data.logger_iterations,
              start_iteration |-> StartIteration(data)]

\* the defaults of the constructors the engine calls
EngineCorpusSize == 100
EngineMaxHits == 50000
EngineMaxSignatures == 10000

\* the target of the runs of the model
EngineApi == "torch.add"

\* self.oracles as the constructor sets it with use_all_oracles (the default)
EngineOracles == <<"crash", "cuda", "precision">>

\* what a call of self.library.test_with_oracle(api, oracle) does: it raises
\* an Exception, or it returns the kernels it captured, alone or in a tuple
\* with a bug_info
Raises == [raised |-> TRUE, kernels |-> {}, bug_info |-> None]
Returns(captured_kernels, bug_info) ==
    [raised |-> FALSE, kernels |-> captured_kernels, bug_info |-> bug_info]

\* mutant: execution_valid is set before the call, not after it
TestOracles_early(outcomes) ==
    LET returned == {j \in DOMAIN outcomes : ~outcomes[j].raised}
    IN  [all_captured_kernels |-> UNION {outcomes[j].kernels : j \in returned},
         execution_valid |-> outcomes # <<>>,
         bug_infos |-> SelectSeq(outcomes,
                                 LAMBDA o : ~o.raised /\ o.bug_info.some)]

\* the loop over self.oracles: what it leaves in all_captured_kernels and
\* execution_valid, and the bug_infos it hands to the deduplicator, in order
TestOracles(outcomes) ==
    LET returned == {j \in DOMAIN outcomes : ~outcomes[j].raised}
    IN  [all_captured_kernels |-> UNION {outcomes[j].kernels : j \in returned},
         execution_valid |-> returned # {},
         bug_infos |-> SelectSeq(outcomes,
                                 LAMBDA o : ~o.raised /\ o.bug_info.some)]

\* record_bug for each bug_info of the pass
RECURSIVE RecordBugs(_, _, _)
RecordBugs(d, outcomes, iteration) ==
    IF outcomes = <<>> THEN d
    ELSE RecordBugs(Dedup_record_bug(d, Head(outcomes).bug_info.val.type,
                                     Head(outcomes).bug_info.val.error,
                                     iteration).self,
                    Tail(outcomes), iteration)

\* what the collaborators outside the loop do with a candidate: the
\* candidate, OutlierFilter's verdict, and what the call for each oracle does
Executions ==
    {[api |-> << [name |-> "input", arg |-> Some(TensorArg("float32"))] >>,
      filtered |-> TRUE, outcomes |-> <<>>],
     [api |-> << [name |-> "input", arg |-> Some(TensorArg("float32"))] >>,
      filtered |-> FALSE, outcomes |-> <<Raises, Raises, Raises>>],
     [api |-> << [name |-> "input", arg |-> Some(TensorArg("float32"))] >>,
      filtered |-> FALSE,
      outcomes |-> <<Returns({}, None), Returns({}, None), Returns({}, None)>>],
     [api |-> << [name |-> "input", arg |-> Some(TensorArg("float32"))] >>,
      filtered |-> FALSE,
      outcomes |-> <<Raises, Returns({"k1"}, None), Raises>>],
     [api |-> << [name |-> "input", arg |-> Some(TensorArg("int8"))],
                 [name |-> "dtype", arg |-> Some(DtypeArg("float32"))] >>,
      filtered |-> FALSE,
      outcomes |-> <<Returns({"k1"}, None),
                     Returns(Tokens,
                             Some([type |-> "crash",
                                   error |-> "RuntimeError: expected 3D tensor"])),
                     Returns({}, None)>>]}

\* the engine as its constructor leaves it
Constructed(max_iterations, checkpoint_interval, warmup_ratio) ==
    [pc |-> "new",
     max_iterations |-> max_iterations,
     checkpoint_interval |-> checkpoint_interval,
     warmup_ratio |-> warmup_ratio,
     enable_patches |-> TRUE,
     warmup_threshold |-> 0,
     start_iteration |-> 0,
     i |-> 0,
     logger_iterations |-> 0,
     valid_count |-> 0,
     invalid_count |-> 0,
     stopped |-> FALSE]

\* mutant: every record is counted as a valid one
LogIteration_valid(g, valid) ==
    [g EXCEPT !.logger_iterations = @ + 1, !.valid_count = @ + 1]

\* ExperimentLogger.log_iteration(iteration, source, api, valid, kernels):
\* the counters of the logger, which the engine record holds
LogIteration(g, valid) ==
    [g EXCEPT !.logger_iterations = @ + 1,
              !.valid_count = IF valid THEN @ + 1 ELSE @,
              !.invalid_count = IF valid THEN @ ELSE @ + 1]

\* the objects the constructor builds; the detector's patience and
\* check_interval are scaled to the length of the runs here
BuiltTracker == Tracker_init(TRUE, 2, 1)
BuiltCorpus == Corpus_init(EngineCorpusSize)
BuiltSpace == Space_register_api(Space_init(EngineMaxHits), EngineApi, None)
BuiltDedup == Dedup_init(EngineMaxSignatures)
BuiltManager == Checkpoint_init("guided", EngineApi)

\* history of a run that has not entered run_fuzzing_loop
NewRun(number) ==
    [number |-> number, found |-> FALSE, loaded |-> None,
     start_kernels |-> {}, start_corpus |-> <<>>, executed |-> <<>>]

(***************************************************************************)
(* TorchAPI objects.  A candidate is an object with a list of argument     *)
(* objects, each with a value; an object is known by its place in the      *)
(* sequence of the objects made so far.  `api` is the loop's variable of   *)
(* that name (0: not bound), `parent` the seed select_parent() returned    *)
(* for it (0: none), `passed` whether add_seed was called with it.         *)
(***************************************************************************)
ArgValues == {0, 1}

NoObjects == [objects |-> <<>>, api |-> 0, parent |-> 0, passed |-> FALSE]

\* TorchAPI(self.api_name): a new object with one argument of value v
NewApi(h, v) ==
    LET base == Len(h.objects)
    IN  [heap |-> [h EXCEPT !.objects =
                      @ \o << [kind |-> "arg", args |-> <<>>, value |-> v],
                              [kind |-> "api", args |-> <<base + 1>>, value |-> 0] >>],
         id |-> base + 2]

\* mutant: copy.copy for copy.deepcopy, the copy shares the arguments
DeepCopy_shallow(h, id) ==
    [heap |-> [h EXCEPT !.objects =
                  Append(@, [kind |-> "api", args |-> h.objects[id].args,
                             value |-> 0])],
     id |-> Len(h.objects) + 1]

\* copy.deepcopy(api): a new object with new argument objects of the same
\* values
DeepCopy(h, id) ==
    LET old == h.objects[id].args
        base == Len(h.objects)
        copies == [k \in 1..Len(old) |->
                      [kind |-> "arg", args |-> <<>>,
                       value |-> h.objects[old[k]].value]]
    IN  [heap |-> [h EXCEPT !.objects =
                      (@ \o copies)
                          \o << [kind |-> "api",
                                 args |-> [k \in 1..Len(old) |-> base + k],
                                 value |-> 0] >>],
         id |-> base + Len(old) + 1]

\* api.mutate(): the k-th argument gets the value v, in the object it is, or
\* the argument is replaced by a new object of that value
MutateInPlace(h, id, k, v) ==
    [h EXCEPT !.objects[h.objects[id].args[k]].value = v]
MutateReplace(h, id, k, v) ==
    [h EXCEPT !.objects =
        Append([@ EXCEPT ![id].args[k] = Len(h.objects) + 1],
               [kind |-> "arg", args |-> <<>>, value |-> v])]

\* what an object looks like to a reader: the values of its arguments
ValueOf(h, id) ==
    [k \in 1..Len(h.objects[id].args) |-> h.objects[h.objects[id].args[k]].value]

\* the objects that can be reached from an object
Reach(h, id) == {id} \cup {h.objects[id].args[k] : k \in 1..Len(h.objects[id].args)}

(***************************************************************************)
(* TorchLibrary (classes/torch_library.py): the in-memory deduplication of *)
(* bug reports and the directory each oracle writes its test case to.      *)
(* `written` counts the write_to_dir calls per (oracle, directory, key).   *)
(***************************************************************************)
DedupKeyLimit == 200
CompareTextLimit == 100
ErrorDiffLimit == 50

Library_init ==
    [seen_errors |-> {}, dedup_stats |-> [total |-> 0, skipped |-> 0], written |-> EmptyDict]

\* f"{bug_type}:{error_msg[:200]}"
Library_dedup_key(error_msg, bug_type) == bug_type \o ":" \o Prefix(error_msg, DedupKeyLimit)

\* mutant: the key is counted but never stored
Library_is_duplicate_bug_unstored(l, error_msg, bug_type) ==
    IF ~error_msg.some THEN [self |-> l, result |-> FALSE, key |-> None]
    ELSE LET dedup_key == Library_dedup_key(error_msg.val, bug_type)
             counted == [l EXCEPT !.dedup_stats.total = @ + 1]
         IN  [self |-> counted, result |-> FALSE, key |-> Some(dedup_key)]

Library_is_duplicate_bug(l, error_msg, bug_type) ==
    IF ~error_msg.some THEN [self |-> l, result |-> FALSE, key |-> None]
    ELSE LET dedup_key == Library_dedup_key(error_msg.val, bug_type)
             counted == [l EXCEPT !.dedup_stats.total = @ + 1]
         IN  IF dedup_key \in l.seen_errors
             THEN [self |-> [counted EXCEPT !.dedup_stats.skipped = @ + 1],
                   result |-> TRUE, key |-> Some(dedup_key)]
             ELSE [self |-> [counted EXCEPT !.seen_errors = @ \cup {dedup_key}],
                   result |-> FALSE, key |-> Some(dedup_key)]

Library_is_error_msg(error_msg) ==
    /\ error_msg.some
    /\ ~Contains(error_msg.val, "not implement")
    /\ ~Contains(error_msg.val, "not support")

Library_is_crash_msg(error_msg) == error_msg.some /\ Contains(error_msg.val, "INTERNAL ASSERT")

\* a value Python takes as true: a string that is neither None nor empty
Truthy(o) == o.some /\ o.val # ""

\* write_to_dir(join(self.output[oracle], dir), ...); key is the
\* deduplication key the test case was checked under, if it was
Library_write_to_dir(l, oracle, dir, key) ==
    LET slot == <<oracle, dir, key>>
    IN  [l EXCEPT !.written = IF slot \in DOMAIN @ THEN [@ EXCEPT ![slot] = @ + 1]
                              ELSE @ @@ (slot :> 1)]

NoWrite(l) == [self |-> l, write_dir |-> None, key |-> None, duplicate |-> FALSE]

Wrote(l, oracle, dir, key, duplicate) ==
    [self |-> Library_write_to_dir(l, oracle, dir, key), write_dir |-> Some(dir),
     key |-> key, duplicate |-> duplicate]

\* the CRASH branch; r is what run_code returned
Library_test_crash(l, r) ==
    IF ~r.error.some THEN Wrote(l, "crash", "success", None, FALSE)
    ELSE IF Library_is_crash_msg(r.error)
    THEN LET d == Library_is_duplicate_bug(l, r.error, "crash")
         IN  IF ~d.result THEN Wrote(d.self, "crash", "potential-bug", d.key, FALSE)
             ELSE [NoWrite(d.self) EXCEPT !.key = d.key, !.duplicate = TRUE]
    ELSE Wrote(l, "crash", "fail", None, FALSE)

NotABug(dir) == [write_dir |-> dir, is_potential_bug |-> FALSE, bug_signature |-> None]
PotentialBug(dir, signature) == [write_dir |-> dir, is_potential_bug |-> TRUE, bug_signature |-> Some(signature)]

\* the verdict of the CUDA branch before deduplication
Library_cuda_verdict(r) ==
    LET cpu == r.err_cpu
        gpu == r.err_gpu
    IN  IF ~r.error.some
        THEN IF ~cpu.some /\ ~gpu.some
             THEN IF r.compare.raises
                  THEN PotentialBug("compare-bug", "compare-exception:" \o Prefix(r.compare.text, CompareTextLimit))
                  ELSE IF r.compare.is_equal THEN NotABug("success")
                  ELSE PotentialBug("potential-bug", "cpu-gpu-mismatch")
             ELSE IF Library_is_crash_msg(cpu) \/ Library_is_crash_msg(gpu)
             THEN PotentialBug("potential-bug", "crash:" \o (IF Truthy(cpu) THEN cpu.val ELSE gpu.val))
             ELSE IF Truthy(cpu) /\ Truthy(gpu) THEN NotABug("success")
             ELSE IF Library_is_error_msg(cpu) # Library_is_error_msg(gpu)
             THEN PotentialBug("potential-bug",
                               "error-diff:" \o (IF Truthy(cpu) THEN Prefix(cpu.val, ErrorDiffLimit) ELSE "none")
                               \o "|" \o (IF Truthy(gpu) THEN Prefix(gpu.val, ErrorDiffLimit) ELSE "none"))
             ELSE NotABug("success")
        ELSE IF Library_is_crash_msg(r.error)
        THEN PotentialBug("potential-bug", "exec-crash:" \o r.error.val)
        ELSE NotABug("fail")

\* the CUDA branch: a duplicate is not written at all
Library_test_cuda(l, r) ==
    LET v == Library_cuda_verdict(r)
    IN  IF v.is_potential_bug /\ Truthy(v.bug_signature)
        THEN LET d == Library_is_duplicate_bug(l, v.bug_signature, "cuda")
             IN  IF d.result THEN [NoWrite(d.self) EXCEPT !.key = d.key, !.duplicate = TRUE]
                 ELSE Wrote(d.self, "cuda", v.write_dir, d.key, FALSE)
        ELSE Wrote(l, "cuda", v.write_dir, None, FALSE)

\* the PRECISION branch: a duplicate is written to "fail"
Library_test_precision(l, r) ==
    LET v == IF ~r.error.some
             THEN IF r.floats
                  THEN IF r.slow THEN PotentialBug("potential-bug", "precision-slowdown:" \o r.times)
                       ELSE NotABug("success")
                  ELSE NotABug("fail")
             ELSE NotABug("fail")
    IN  IF v.is_potential_bug /\ Truthy(v.bug_signature)
        THEN LET d == Library_is_duplicate_bug(l, v.bug_signature, "precision")
             IN  IF d.result THEN Wrote(d.self, "precision", "fail", None, TRUE)
                 ELSE Wrote(d.self, "precision", v.write_dir, d.key, FALSE)
        ELSE Wrote(l, "precision", v.write_dir, None, FALSE)

Library_test_with_oracle(l, oracle, r) ==
    CASE oracle = "crash" -> Library_test_crash(l, r)
      [] oracle = "cuda" -> Library_test_cuda(l, r)
      [] oracle = "precision" -> Library_test_precision(l, r)

\* messages run_code can hand back; the two long ones agree in more than
\* their first 200 characters and differ only in their last one
RECURSIVE Filler(_)
Filler(n) ==
    IF n = 0 THEN ""
    ELSE IF n % 2 = 1 THEN "x" \o Filler(n - 1)
    ELSE LET half == Filler(n \div 2) IN half \o half

LongCrash == "INTERNAL ASSERT FAILED " \o Filler(DedupKeyLimit)
LongMessages == {LongCrash \o "A", LongCrash \o "B"}
ShortMessages == {"INTERNAL ASSERT FAILED", "shape mismatch"}
LibraryMessages == LongMessages \cup ShortMessages

CrashRuns == {[error |-> None]} \cup {[error |-> Some(m)] : m \in LibraryMessages}

Compared(is_equal) == [raises |-> FALSE, is_equal |-> is_equal, text |-> ""]
CompareRaised(text) == [raises |-> TRUE, is_equal |-> FALSE, text |-> text]

CudaRuns ==
    {[error |-> Some(m), err_cpu |-> None, err_gpu |-> None, compare |-> Compared(TRUE)] : m \in ShortMessages}
    \cup {[error |-> None, err_cpu |-> None, err_gpu |-> None, compare |-> c] :
             c \in {Compared(TRUE), Compared(FALSE),
                    CompareRaised(Filler(CompareTextLimit) \o "A"), CompareRaised(Filler(CompareTextLimit) \o "B")}}
    \cup {[error |-> None, err_cpu |-> cpu, err_gpu |-> gpu, compare |-> Compared(TRUE)] :
             <<cpu, gpu>> \in {<<a, b>> \in ({None} \cup {Some(m) : m \in ShortMessages})
                                            \X ({None} \cup {Some(m) : m \in ShortMessages}) :
                                  a.some \/ b.some}
                          \cup {<<None, Some("not implemented for Half")>>}}

PrecisionRuns ==
    {[error |-> Some("shape mismatch"), floats |-> FALSE, slow |-> FALSE, times |-> ""],
     [error |-> None, floats |-> FALSE, slow |-> FALSE, times |-> ""],
     [error |-> None, floats |-> TRUE, slow |-> FALSE, times |-> "0.10vs0.10"],
     [error |-> None, floats |-> TRUE, slow |-> TRUE, times |-> "3.00vs0.10"],
     [error |-> None, floats |-> TRUE, slow |-> TRUE, times |-> "5.00vs0.20"]}

LibraryRuns(oracle) ==
    CASE oracle = "crash" -> CrashRuns
      [] oracle = "cuda" -> CudaRuns
      [] oracle = "precision" -> PrecisionRuns

(***************************************************************************)
(* The state before any call.  Each specification below drives one class;  *)
(* the objects it does not drive stay as constructed.                      *)
(***************************************************************************)
\* a manager that is not in a save
NoSave(m) == [manager |-> m, pc |-> "idle", data |-> None, written |-> 0]

\* the copies as the HKG script constructs them
Copies(max_size) == [tracker |-> HkgTracker_init, corpus |-> HkgCorpus_init(max_size)]
NoCopies == Copies(1)

NoStreak == [len |-> 0, boundaries |-> 0, qualified |-> FALSE, expands |-> 0]

Idle ==
    /\ clock = 0
    /\ ret = NoCall
    /\ fed = {}
    /\ admitted = <<>>
    /\ streak = NoStreak
    /\ seen = [a \in ApiNames |-> {}]
    /\ dedup = Dedup_init(1)
    /\ library = Library_init
    /\ hkg = NoCopies
    /\ recorded = [b \in Buckets |-> <<>>]
    /\ disk = EmptyDict
    /\ saver = NoSave(Checkpoint_init("guided", "torch.add"))
    /\ engine = Constructed(1, 1, 0)
    /\ run = NewRun(1)
    /\ heap = NoObjects

(***************************************************************************)
(* SpecDetector: a driver calling update (with iteration indices that      *)
(* grow, as the loop's do) and reset on an AdaptiveSaturationDetector.     *)
(***************************************************************************)
InitDetector ==
    /\ Idle
    /\ variant = "full"
    /\ \E p \in 1..MaxPatience, c \in 1..MaxInterval :
          /\ detector = Detector_init(p, c)
          /\ tracker = Tracker_init(TRUE, p, c)
    /\ corpus = Corpus_init(1)
    /\ controller = Controller_init
    /\ space = Space_init(1)

DetectorUpdate ==
    \E current_kernels \in 0..MaxTotal, iteration \in clock..MaxIter :
        LET r == Detector_update(detector, current_kernels, iteration)
            grew == current_kernels > detector.last_kernel_count
            boundary == iteration - detector.last_check_iteration
                            >= detector.check_interval
        IN  /\ detector' = r.self
            /\ ret' = [op |-> "detector.update",
                       current_kernels |-> current_kernels,
                       iteration |-> iteration,
                       before |-> detector,
                       should_expand |-> r.should_expand,
                       message |-> r.message]
            /\ clock' = iteration + 1
            /\ streak' =
                  IF grew THEN NoStreak
                  ELSE [len |-> streak.len + 1,
                        boundaries |-> streak.boundaries + (IF boundary THEN 1 ELSE 0),
                        qualified |-> streak.qualified
                                        \/ (boundary /\ streak.len + 1 >= detector.patience),
                        expands |-> streak.expands + (IF r.should_expand THEN 1 ELSE 0)]
            /\ UNCHANGED <<enginevars, filevars, bugvars, variant, tracker, corpus, controller, space, fed, admitted, seen>>

DetectorReset ==
    /\ detector' = Detector_reset(detector)
    /\ ret' = [op |-> "detector.reset", before |-> detector]
    /\ streak' = NoStreak
    /\ UNCHANGED <<enginevars, filevars, bugvars, variant, clock, tracker, corpus, controller, space, fed, admitted, seen>>

NextDetector == DetectorUpdate \/ DetectorReset

SpecDetector == InitDetector /\ [][NextDetector]_vars

(***************************************************************************)
(* SpecTracker: a driver calling update on an EnhancedCoverageTracker of   *)
(* either script.                                                          *)
(***************************************************************************)
InitTracker ==
    /\ Idle
    /\ variant \in Variants
    /\ \E p \in 1..MaxPatience, c \in 1..MaxInterval :
          /\ detector = Detector_init(p, c)
          /\ IF variant = "full"
             THEN \E enable \in BOOLEAN : tracker = Tracker_init(enable, p, c)
             ELSE tracker = HkgTracker_init
    /\ corpus = Corpus_init(1)
    /\ controller = Controller_init
    /\ space = Space_init(1)

TrackerUpdate ==
    /\ variant = "full"
    /\ \E new_kernels \in KernelArgs, iteration \in clock..MaxIter :
        LET r == Tracker_update(tracker, new_kernels, iteration)
        IN  /\ tracker' = r.self
            /\ ret' = [op |-> "tracker.update",
                       new_kernels |-> new_kernels,
                       iteration |-> iteration,
                       num_fresh |-> r.num_fresh,
                       should_expand |-> r.should_expand,
                       message |-> r.message]
            /\ clock' = iteration + 1
            /\ fed' = fed \cup (IF new_kernels.kind = "list"
                                THEN Range(new_kernels.val)
                                ELSE new_kernels.val)
    /\ UNCHANGED <<enginevars, filevars, bugvars, variant, detector, corpus, controller, space, admitted, streak, seen>>

HkgTrackerUpdate ==
    /\ variant = "hkg"
    /\ \E new_kernels \in KernelArgs, iteration \in clock..MaxIter :
        LET r == HkgTracker_update(tracker, new_kernels, iteration)
        IN  /\ tracker' = r.self
            /\ ret' = [op |-> "tracker.update",
                       new_kernels |-> new_kernels,
                       iteration |-> iteration,
                       num_fresh |-> r.num_fresh]
            /\ clock' = iteration + 1
            /\ fed' = fed \cup (IF new_kernels.kind = "list"
                                THEN Range(new_kernels.val)
                                ELSE new_kernels.val)
    /\ UNCHANGED <<enginevars, filevars, bugvars, variant, detector, corpus, controller, space, admitted, streak, seen>>

NextTracker == TrackerUpdate \/ HkgTrackerUpdate

SpecTracker == InitTracker /\ [][NextTracker]_vars

(***************************************************************************)
(* SpecCorpus: a driver calling add_seed and select_parent on an           *)
(* EvolutionaryCorpus of either script.                                    *)
(***************************************************************************)
InitCorpus ==
    /\ Idle
    /\ variant \in Variants
    /\ \E max_size \in 1..MaxCorpusSize :
          corpus = IF variant = "full" THEN Corpus_init(max_size)
                   ELSE HkgCorpus_init(max_size)
    /\ detector = Detector_init(1, 1)
    /\ tracker = HkgTracker_init
    /\ controller = Controller_init
    /\ space = Space_init(1)

AddSeed ==
    /\ clock < MaxAdds
    /\ \E api \in Candidates, discovered_kernels \in SUBSET Tokens :
        /\ corpus' = IF variant = "full"
                     THEN Corpus_add_seed(corpus, api, discovered_kernels)
                     ELSE HkgCorpus_add_seed(corpus, api, discovered_kernels)
        /\ ret' = [op |-> "corpus.add_seed", api |-> api,
                   discovered_kernels |-> discovered_kernels]
        /\ admitted' = IF discovered_kernels # {} THEN Append(admitted, api)
                       ELSE admitted
    /\ clock' = clock + 1
    /\ UNCHANGED <<enginevars, filevars, bugvars, variant, tracker, detector, controller, space, fed, streak, seen>>

SelectParent ==
    /\ LET choices == IF variant = "full" THEN Corpus_select_parent(corpus)
                      ELSE HkgCorpus_select_parent(corpus)
       IN  IF choices = {}
           THEN ret' = [op |-> "corpus.select_parent", result |-> None]
           ELSE \E i \in choices :
                   ret' = [op |-> "corpus.select_parent",
                           result |-> Some(corpus.corpus[i])]
    /\ UNCHANGED <<enginevars, filevars, bugvars, variant, clock, tracker, detector, corpus, controller, space,
                   fed, admitted, streak, seen>>

NextCorpus == AddSeed \/ SelectParent

SpecCorpus == InitCorpus /\ [][NextCorpus]_vars

(***************************************************************************)
(* SpecCopies: the tracker and the corpus of the full script and the       *)
(* copies of the HKG script, constructed alike and given the same calls.   *)
(***************************************************************************)
MaxCopyCalls == 3

InitCopies ==
    /\ variant = "full"
    /\ clock = 0
    /\ ret = NoCall
    /\ fed = {}
    /\ admitted = <<>>
    /\ streak = NoStreak
    /\ seen = [a \in ApiNames |-> {}]
    /\ dedup = Dedup_init(1)
    /\ recorded = [b \in Buckets |-> <<>>]
    /\ library = Library_init
    /\ disk = EmptyDict
    /\ saver = NoSave(Checkpoint_init("guided", "torch.add"))
    /\ engine = Constructed(1, 1, 0)
    /\ run = NewRun(1)
    /\ heap = NoObjects
    /\ detector = Detector_init(1, 1)
    /\ controller = Controller_init
    /\ space = Space_init(1)
    /\ \E enable \in BOOLEAN : tracker = Tracker_init(enable, 1, 1)
    /\ \E max_size \in 1..MaxCorpusSize :
          /\ corpus = Corpus_init(max_size)
          /\ hkg = Copies(max_size)

UpdateBoth ==
    /\ clock < MaxCopyCalls
    /\ \E new_kernels \in KernelArgs, iteration \in {clock} :
        \E r \in {Tracker_update(tracker, new_kernels, iteration)},
           h \in {HkgTracker_update(hkg.tracker, new_kernels, iteration)} :
            /\ tracker' = r.self
            /\ hkg' = [hkg EXCEPT !.tracker = h.self]
            /\ ret' = [op |-> "copies.update", new_kernels |-> new_kernels,
                       iteration |-> iteration, num_fresh |-> r.num_fresh,
                       hkg_num_fresh |-> h.num_fresh]
            /\ clock' = iteration + 1
            /\ fed' = fed \cup AsSet(new_kernels)
    /\ UNCHANGED <<enginevars, filevars, dedup, recorded, library, variant, detector, corpus,
                   controller, space, admitted, streak, seen>>

AddSeedBoth ==
    /\ clock < MaxCopyCalls
    /\ \E api \in Candidates, discovered_kernels \in SUBSET Tokens :
        /\ corpus' = Corpus_add_seed(corpus, api, discovered_kernels)
        /\ hkg' = [hkg EXCEPT !.corpus = HkgCorpus_add_seed(@, api, discovered_kernels)]
        /\ ret' = [op |-> "copies.add_seed", api |-> api,
                   discovered_kernels |-> discovered_kernels]
        /\ admitted' = IF discovered_kernels # {} THEN Append(admitted, api)
                       ELSE admitted
    /\ clock' = clock + 1
    /\ UNCHANGED <<enginevars, filevars, dedup, recorded, library, variant, tracker, detector,
                   controller, space, fed, streak, seen>>

NextCopies == UpdateBoth \/ AddSeedBoth

SpecCopies == InitCopies /\ [][NextCopies]_vars

(***************************************************************************)
(* SpecPolicy: a driver calling should_explore, enter_expansion_mode and   *)
(* exit_expansion_mode on an AdaptiveMutationController in any order.      *)
(***************************************************************************)
InitPolicy ==
    /\ Idle
    /\ variant = "full"
    /\ controller = Controller_init
    /\ detector = Detector_init(1, 1)
    /\ tracker = HkgTracker_init
    /\ corpus = Corpus_init(1)
    /\ space = Space_init(1)

ShouldExplore ==
    /\ clock < MaxDraws
    /\ \E r \in RandomDraws :
        LET c == Controller_should_explore(controller, r)
        IN  /\ controller' = c.self
            /\ ret' = [op |-> "controller.should_explore", draw |-> r,
                       result |-> c.result]
    /\ clock' = clock + 1
    /\ UNCHANGED <<enginevars, filevars, bugvars, variant, tracker, detector, corpus, space, fed, admitted, streak,
                   seen>>

EnterExpansionMode ==
    /\ controller' = Controller_enter_expansion_mode(controller)
    /\ ret' = [op |-> "controller.enter_expansion_mode"]
    /\ UNCHANGED <<enginevars, filevars, bugvars, variant, clock, tracker, detector, corpus, space, fed, admitted,
                   streak, seen>>

ExitExpansionMode ==
    /\ controller' = Controller_exit_expansion_mode(controller)
    /\ ret' = [op |-> "controller.exit_expansion_mode"]
    /\ UNCHANGED <<enginevars, filevars, bugvars, variant, clock, tracker, detector, corpus, space, fed, admitted,
                   streak, seen>>

NextPolicy == ShouldExplore \/ EnterExpansionMode \/ ExitExpansionMode

SpecPolicy == InitPolicy /\ [][NextPolicy]_vars

(***************************************************************************)
(* SpecMutation: Argument.mutate_int_value as PoisonPatcher.patch()        *)
(* replaces it for both strategies, called on an argument while the        *)
(* controller changes its mode.  roll is rand() in hundredths.             *)
(***************************************************************************)
\* the values in the lists poison_int_mutation chooses from
BoundaryValues == {0, -1, 1}
ExtremeValues == {-999, 999, -2147483647 - 1, 2147483647, -65536, 65536}
TrapValues == {-2, -3, -4, 256, 512, 1024, 7, 11, 13, 0}
\* randint(-8, 9): the upper end is excluded
GentleSteps == -8..8
\* Argument._int_values, the dictionary of the argument class: two of its
\* values stand for it
Argument_int_values == {2, 16}

\* what new_value can be before the limits are applied
PoisonIntChoices(value, roll) ==
    IF roll < 10 THEN BoundaryValues
    ELSE IF roll < 20 THEN ExtremeValues
    ELSE IF roll < 30 THEN TrapValues
    ELSE IF roll < 60 THEN Argument_int_values
    ELSE {value + d : d \in GentleSteps}

\* the limits _min and _max, which -1 and 0 pass below _min
PoisonIntLimit(new_value, _min, _max) ==
    LET low == IF _min.some /\ new_value < _min.val /\ new_value \notin {-1, 0}
               THEN _min.val ELSE new_value
    IN  IF _max.some /\ low > _max.val THEN _max.val ELSE low

\* the values poison_int_mutation(self, value, _min, _max) can return
PoisonIntMutation(value, roll, _min, _max) ==
    {PoisonIntLimit(n, _min, _max) : n \in PoisonIntChoices(value, roll)}

MutatedInts == {0, 5}
MutationRolls == {5, 15, 25, 45, 80}
MutationLimits == {[min |-> None, max |-> None], [min |-> Some(1), max |-> Some(100)]}

\* arg.mutate_int_value(value, _min, _max) during api.mutate()
MutateIntValue ==
    /\ \E value \in MutatedInts, roll \in MutationRolls, lim \in MutationLimits :
        \E result \in PoisonIntMutation(value, roll, lim.min, lim.max) :
            ret' = [op |-> "argument.mutate_int_value", value |-> value,
                    roll |-> roll, min |-> lim.min, max |-> lim.max,
                    result |-> result,
                    range |-> Controller_get_mutation_range(controller),
                    expansion_mode |-> controller.expansion_mode]
    /\ UNCHANGED <<enginevars, filevars, bugvars, variant, clock, tracker, detector,
                   corpus, controller, space, fed, admitted, streak, seen>>

NextMutation == EnterExpansionMode \/ ExitExpansionMode \/ MutateIntValue

SpecMutation == InitPolicy /\ [][NextMutation]_vars

(***************************************************************************)
(* SpecSpace: a driver calling register_api and record_hit on a            *)
(* DispatcherSpace of either script.                                       *)
(***************************************************************************)
InitSpace ==
    /\ Idle
    /\ variant \in Variants
    /\ IF variant = "full"
       THEN \E max_hits \in 1..MaxHitsCap : space = Space_init(max_hits)
       ELSE space = HkgSpace_init
    /\ detector = Detector_init(1, 1)
    /\ tracker = HkgTracker_init
    /\ corpus = Corpus_init(1)
    /\ controller = Controller_init

RegisterApi ==
    /\ variant = "full"
    /\ clock < MaxSpaceCalls
    /\ \E api_name \in ApiNames,
          dimensions \in {None} \cup {Some(d) : d \in DimensionChoices} :
        /\ space' = Space_register_api(space, api_name, dimensions)
        /\ ret' = [op |-> "space.register_api", api_name |-> api_name,
                   dimensions |-> dimensions]
        /\ seen' = [seen EXCEPT ![api_name] = {}]
    /\ clock' = clock + 1
    /\ UNCHANGED <<enginevars, filevars, bugvars, variant, tracker, detector, corpus, controller, fed, admitted,
                   streak>>

RecordHit ==
    /\ variant = "full"
    /\ clock < MaxSpaceCalls
    /\ \E api_name \in ApiNames, api \in ApiObjects, is_cuda \in BOOLEAN :
        LET r == Space_record_hit(space, api_name, api, is_cuda)
        IN  /\ space' = r.self
            /\ ret' = [op |-> "space.record_hit", api_name |-> api_name,
                       api |-> Some(api), state_dict |-> None, is_cuda |-> is_cuda,
                       result |-> r.result]
            /\ seen' = IF ObservedDtypes(api) = {} THEN seen
                       ELSE [seen EXCEPT ![api_name] =
                                @ \cup {FullCombination(api, is_cuda)}]
    /\ clock' = clock + 1
    /\ UNCHANGED <<enginevars, filevars, bugvars, variant, tracker, detector, corpus, controller, fed, admitted,
                   streak>>

HkgRegisterApi ==
    /\ variant = "hkg"
    /\ clock < MaxSpaceCalls
    /\ \E api_name \in ApiNames,
          dimensions \in {None} \cup {Some(d) : d \in DimensionChoices} :
        /\ space' = HkgSpace_register_api(space, api_name, dimensions)
        /\ ret' = [op |-> "space.register_api", api_name |-> api_name,
                   dimensions |-> dimensions]
    /\ clock' = clock + 1
    /\ UNCHANGED <<enginevars, filevars, bugvars, variant, tracker, detector, corpus, controller, fed, admitted,
                   streak, seen>>

HkgRecordHit ==
    /\ variant = "hkg"
    /\ clock < MaxSpaceCalls
    /\ \E api_name \in ApiNames, o \in HkgObservations,
          iteration \in {None, Some(clock)} :
        LET r == HkgSpace_record_hit(space, api_name, o.api, o.state_dict, iteration)
        IN  /\ space' = r.self
            /\ ret' = [op |-> "space.record_hit", api_name |-> api_name,
                       api |-> o.api, state_dict |-> o.state_dict, is_cuda |-> FALSE,
                       result |-> r.result]
            /\ seen' = [seen EXCEPT ![api_name] =
                          @ \cup {HkgCombination(r.self.api_dimensions[api_name],
                                      HkgSpace_observed(o.api, o.state_dict))}]
    /\ clock' = clock + 1
    /\ UNCHANGED <<enginevars, filevars, bugvars, variant, tracker, detector, corpus, controller, fed, admitted,
                   streak>>

NextSpace == RegisterApi \/ RecordHit \/ HkgRegisterApi \/ HkgRecordHit

SpecSpace == InitSpace /\ [][NextSpace]_vars

(***************************************************************************)
(* SpecBugs: a driver handing diagnostics to a RealTimeBugDeduplicator and  *)
(* bug files to BugAnalyzer.classify_bug.                                  *)
(***************************************************************************)
InitBugs ==
    /\ clock = 0
    /\ ret = NoCall
    /\ fed = {}
    /\ admitted = <<>>
    /\ streak = NoStreak
    /\ seen = [a \in ApiNames |-> {}]
    /\ recorded = [b \in Buckets |-> <<>>]
    /\ disk = EmptyDict
    /\ saver = NoSave(Checkpoint_init("guided", "torch.add"))
    /\ engine = Constructed(1, 1, 0)
    /\ run = NewRun(1)
    /\ heap = NoObjects
    /\ variant = "full"
    /\ \E max_signatures \in 1..MaxSignaturesCap : dedup = Dedup_init(max_signatures)
    /\ library = Library_init
    /\ hkg = NoCopies
    /\ space = Space_init(1)
    /\ detector = Detector_init(1, 1)
    /\ tracker = HkgTracker_init
    /\ corpus = Corpus_init(1)
    /\ controller = Controller_init

RecordBug ==
    /\ clock < MaxBugCalls
    /\ \E oracle_type \in OracleTypes, error_msg \in ErrorMessages :
        LET r == Dedup_record_bug(dedup, oracle_type, error_msg, clock)
            bucket == Dedup_bucket(dedup, oracle_type)
        IN  /\ dedup' = r.self
            /\ ret' = [op |-> "dedup.record_bug", oracle_type |-> oracle_type,
                       bucket |-> bucket, error_msg |-> error_msg,
                       is_new |-> r.is_new, signature |-> r.signature]
            /\ recorded' = [recorded EXCEPT ![bucket] =
                               Append(@, [error_msg |-> error_msg,
                                          is_new |-> r.is_new,
                                          signature |-> r.signature])]
    /\ clock' = clock + 1
    /\ UNCHANGED <<enginevars, filevars, library, hkg, variant, tracker, detector, corpus, controller, space, fed,
                   admitted, streak, seen>>

ClassifyBug ==
    /\ clock < MaxBugCalls
    /\ \E content \in Contents :
        ret' = [op |-> "analyzer.classify_bug", content |-> content,
                signature |-> KnownCategories[content].signature,
                result |-> KnownCategories[content].category]
    /\ clock' = clock + 1
    /\ UNCHANGED <<enginevars, filevars, bugvars, variant, tracker, detector, corpus, controller, space,
                   fed, admitted, streak, seen>>

NextBugs == RecordBug \/ ClassifyBug

SpecBugs == InitBugs /\ [][NextBugs]_vars

(***************************************************************************)
(* SpecLibrary: one TorchLibrary instance whose test_with_oracle is called *)
(* with any oracle and any outcome of run_code, and whose                  *)
(* _is_duplicate_bug is also called on its own.                            *)
(***************************************************************************)
MaxLibraryCalls == 3

InitLibrary ==
    /\ Idle
    /\ variant = "full"
    /\ tracker = Tracker_init(TRUE, 1, 1)
    /\ detector = Detector_init(1, 1)
    /\ corpus = Corpus_init(1)
    /\ controller = Controller_init
    /\ space = Space_init(1)

IsDuplicateBug ==
    /\ clock < MaxLibraryCalls
    /\ \E bug_type \in Buckets, error_msg \in {None} \cup {Some(m) : m \in LongMessages} :
        \E d \in {Library_is_duplicate_bug(library, error_msg, bug_type)} :
            /\ library' = d.self
            /\ ret' = [op |-> "library.is_duplicate_bug", error_msg |-> error_msg,
                       bug_type |-> bug_type, key |-> d.key, result |-> d.result]
    /\ clock' = clock + 1
    /\ UNCHANGED <<enginevars, filevars, dedup, recorded, hkg, variant, tracker, detector, corpus,
                   controller, space, fed, admitted, streak, seen>>

TestWithOracle ==
    /\ clock < MaxLibraryCalls
    /\ \E oracle \in Buckets :
        \E r \in LibraryRuns(oracle) :
            \E t \in {Library_test_with_oracle(library, oracle, r)} :
                /\ library' = t.self
                /\ ret' = [op |-> "library.test_with_oracle", oracle |-> oracle, run |-> r,
                           write_dir |-> t.write_dir, key |-> t.key, duplicate |-> t.duplicate]
    /\ clock' = clock + 1
    /\ UNCHANGED <<enginevars, filevars, dedup, recorded, hkg, variant, tracker, detector, corpus,
                   controller, space, fed, admitted, streak, seen>>

NextLibrary == IsDuplicateBug \/ TestWithOracle

SpecLibrary == InitLibrary /\ [][NextLibrary]_vars

(***************************************************************************)
(* SpecFiles: a process that saves checkpoints -- in one step, or call by  *)
(* call, where an exception or a crash can come between two calls -- and   *)
(* readers that load with a manager of their own at any moment.            *)
(***************************************************************************)
InitFiles ==
    /\ Idle
    /\ variant = "full"
    /\ space = Space_init(1)
    /\ detector = Detector_init(1, 1)
    /\ tracker = HkgTracker_init
    /\ corpus = Corpus_init(1)
    /\ controller = Controller_init

\* save(...) by a process nothing interrupts
Save ==
    /\ saver.pc = "idle"
    /\ clock < MaxFileCalls
    /\ \E s \in SavedStates, fault \in SaveFaults :
       \E written \in PartsWritten(CheckpointData(saver.manager, s.iteration,
                                       s.coverage_kernels, s.corpus_seeds, 0)) :
        LET r == Checkpoint_save(saver.manager, disk, s.iteration, s.coverage_kernels,
                                 s.corpus_seeds, 0, fault, written)
        IN  /\ fault # "dump" => written = 0
            /\ disk' = r.disk
            /\ ret' = [op |-> "checkpoint.save", result |-> r.result,
                       data |-> CheckpointData(saver.manager, s.iteration,
                                               s.coverage_kernels, s.corpus_seeds, 0)]
    /\ clock' = clock + 1
    /\ UNCHANGED <<enginevars, bugvars, saver, variant, tracker, detector, corpus, controller,
                   space, fed, admitted, streak, seen>>

\* save(...) is entered and opens the temporary file
SaveOpen ==
    /\ saver.pc = "idle"
    /\ clock < MaxFileCalls
    /\ \E s \in SavedStates :
        saver' = [saver EXCEPT
                    !.pc = "opened",
                    !.written = 0,
                    !.data = Some(CheckpointData(saver.manager, s.iteration,
                                      s.coverage_kernels, s.corpus_seeds, 0))]
    /\ disk' = Save_open(saver.manager, disk)
    /\ ret' = [op |-> "checkpoint.save.open"]
    /\ clock' = clock + 1
    /\ UNCHANGED <<enginevars, bugvars, variant, tracker, detector, corpus, controller, space,
                   fed, admitted, streak, seen>>

\* pickle.dump gets some more of the pickle into the file
SaveDump ==
    /\ saver.pc = "opened"
    /\ \E n \in {k \in PartsWritten(saver.data.val)
                         \cup {Len(Pickle_dumps(saver.data.val))} : k > saver.written} :
        /\ disk' = Save_dump(saver.manager, disk, saver.data.val, n)
        /\ saver' = [saver EXCEPT
                        !.written = n,
                        !.pc = IF n = Len(Pickle_dumps(saver.data.val))
                               THEN "dumped" ELSE "opened"]
    /\ ret' = [op |-> "checkpoint.save.dump"]
    /\ UNCHANGED <<enginevars, bugvars, variant, clock, tracker, detector, corpus, controller,
                   space, fed, admitted, streak, seen>>

\* the temporary file is renamed to the checkpoint file
SaveReplace ==
    /\ saver.pc = "dumped"
    /\ disk' = Save_replace(saver.manager, disk)
    /\ saver' = [saver EXCEPT !.pc = "replaced"]
    /\ ret' = [op |-> "checkpoint.save.replace"]
    /\ UNCHANGED <<enginevars, bugvars, variant, clock, tracker, detector, corpus, controller,
                   space, fed, admitted, streak, seen>>

\* the metadata file is written and save returns True
SaveMetadata ==
    /\ saver.pc = "replaced"
    /\ disk' = Save_metadata(saver.manager, disk, saver.data.val)
    /\ saver' = NoSave(saver.manager)
    /\ ret' = [op |-> "checkpoint.save", result |-> TRUE, data |-> saver.data.val]
    /\ UNCHANGED <<enginevars, bugvars, variant, clock, tracker, detector, corpus, controller,
                   space, fed, admitted, streak, seen>>

\* the call save has come to raises: save returns False
SaveRaise ==
    /\ saver.pc # "idle"
    /\ disk' = IF saver.pc = "replaced"
               THEN Put(disk, saver.manager.metadata_file, <<>>) ELSE disk
    /\ saver' = NoSave(saver.manager)
    /\ ret' = [op |-> "checkpoint.save", result |-> FALSE, data |-> saver.data.val]
    /\ UNCHANGED <<enginevars, bugvars, variant, clock, tracker, detector, corpus, controller,
                   space, fed, admitted, streak, seen>>

\* the process dies inside save; the next one starts with a new manager
Crash ==
    /\ saver.pc # "idle"
    /\ saver' = NoSave(Checkpoint_init(saver.manager.strategy, "torch.add"))
    /\ ret' = [op |-> "crash"]
    /\ UNCHANGED <<enginevars, bugvars, disk, variant, clock, tracker, detector, corpus,
                   controller, space, fed, admitted, streak, seen>>

\* load() on a manager made for the call, at any moment
Load ==
    /\ clock < MaxFileCalls
    /\ \E raises \in BOOLEAN :
        ret' = [op |-> "checkpoint.load",
                raises |-> raises,
                follows |-> IF ret.op = "checkpoint.save" /\ ret.result
                            THEN Some(ret.data) ELSE None,
                during |-> saver.pc,
                result |-> Checkpoint_load(Checkpoint_init("guided", "torch.add"),
                                           disk, raises)]
    /\ clock' = clock + 1
    /\ UNCHANGED <<enginevars, bugvars, filevars, variant, tracker, detector, corpus, controller,
                   space, fed, admitted, streak, seen>>

\* clear()
Clear ==
    /\ saver.pc = "idle"
    /\ clock < MaxFileCalls
    /\ disk' = Checkpoint_clear(saver.manager, disk)
    /\ ret' = [op |-> "checkpoint.clear"]
    /\ clock' = clock + 1
    /\ UNCHANGED <<enginevars, bugvars, saver, variant, tracker, detector, corpus, controller,
                   space, fed, admitted, streak, seen>>

NextFiles ==
    \/ Save \/ SaveOpen \/ SaveDump \/ SaveReplace \/ SaveMetadata \/ SaveRaise
    \/ Crash \/ Load \/ Clear

SpecFiles == InitFiles /\ [][NextFiles]_vars

(***************************************************************************)
(* SpecEngine: runs of EnhancedFuzzer.run_fuzzing_loop with the guided     *)
(* strategy (patches, logging, checkpoint, safety guards and dispatcher    *)
(* enabled), one pass of the loop a step; a process can be stopped at any  *)
(* pass and the same command run again on the files it left.  The          *)
(* speedometer and the bug tracker keep counters the loop never reads.     *)
(***************************************************************************)
CheckpointIntervals == {1, 2}
EngineRatios == {50}
ExploreDraws == {0, 99}
EngineSaveFaults == {"none", "dump"}

\* int(max_iterations * self.warmup_ratio) for the runs of the model, worked
\* out once
KnownThresholds ==
    [n \in 1..MaxIterations |-> [r \in EngineRatios |-> WarmupThreshold(n, r)]]
ThresholdOf(max_iterations, warmup_ratio) ==
    IF max_iterations \in 1..MaxIterations /\ warmup_ratio \in EngineRatios
    THEN KnownThresholds[max_iterations][warmup_ratio]
    ELSE WarmupThreshold(max_iterations, warmup_ratio)

InitEngine ==
    /\ clock = 0
    /\ ret = NoCall
    /\ fed = {}
    /\ admitted = <<>>
    /\ streak = NoStreak
    /\ seen = [a \in ApiNames |-> {}]
    /\ recorded = [b \in Buckets |-> <<>>]
    /\ variant = "full"
    /\ detector = Detector_init(1, 1)
    /\ tracker = BuiltTracker
    /\ corpus = BuiltCorpus
    /\ controller = Controller_init
    /\ space = BuiltSpace
    /\ dedup = BuiltDedup
    /\ library = Library_init
    /\ hkg = NoCopies
    /\ disk = EmptyDict
    /\ saver = NoSave(BuiltManager)
    /\ \E max_iterations \in 1..MaxIterations,
          checkpoint_interval \in CheckpointIntervals,
          warmup_ratio \in EngineRatios :
        engine = Constructed(max_iterations, checkpoint_interval, warmup_ratio)
    /\ run = NewRun(1)
    /\ heap = NoObjects

\* run_fuzzing_loop up to the `for`: the checkpoint, if there is one, is
\* loaded and taken over, and the warm-up threshold is worked out
EngineStart ==
    /\ engine.pc = "new"
    /\ \E raises \in BOOLEAN :
        LET found == Checkpoint_exists(saver.manager, disk)
            loaded == IF found THEN Checkpoint_load(saver.manager, disk, raises)
                      ELSE None
            r == Resume(tracker, corpus, engine.logger_iterations, loaded)
        IN  /\ raises => found
            /\ tracker' = r.coverage
            /\ corpus' = r.corpus
            /\ engine' = [engine EXCEPT
                            !.pc = "loop",
                            !.start_iteration = r.start_iteration,
                            !.i = r.start_iteration,
                            !.logger_iterations = r.logger_iterations,
                            !.warmup_threshold =
                                ThresholdOf(engine.max_iterations,
                                            engine.warmup_ratio)]
            /\ run' = [run EXCEPT
                          !.found = found,
                          !.loaded = loaded,
                          !.start_kernels = r.coverage.all_kernels,
                          !.start_corpus = r.corpus.corpus]
            /\ ret' = [op |-> "engine.start", found |-> found, raises |-> raises,
                       loaded |-> loaded]
    /\ UNCHANGED <<heap, bugvars, filevars, variant, clock, detector, controller, space,
                   fed, admitted, streak, seen>>

\* what a step that is not a pass of the loop leaves in ret
NoPass(op) == [op |-> op, i |-> 0, source |-> "", api |-> <<>>,
               continued |-> FALSE,
               threw |-> FALSE, all_raised |-> FALSE, valid |-> FALSE,
               kernels |-> {}, new_count |-> 0,
               should_expand |-> FALSE, entered |-> FALSE, exited |-> FALSE,
               broke |-> FALSE, save_called |-> FALSE, save_result |-> FALSE,
               save_args |-> None, calls |-> 0]

\* one pass of the loop for index i, from the source decision to the disk
\* guard.  r and q are what the two random.random() calls return, e what the
\* collaborators do with the candidate, fault the call of save that raises,
\* is_critical what the disk guard answers
EngineIterate ==
    /\ engine.pc = "loop"
    /\ InRange(engine.i, engine.max_iterations)
    /\ \E e \in Executions, r \in ExploreDraws, q \in ExploreDraws :
        \* a draw that is not made: one value
        /\ engine.i < engine.warmup_threshold => r = 0
        /\ (\/ engine.i < engine.warmup_threshold
            \/ r < controller.current_epsilon
            \/ Corpus_size(corpus) = 0) => q = 0
        /\ \E sel \in {SelectSource(engine.i, engine.warmup_threshold, TRUE,
                                     controller, corpus, r, q)} :
            IF e.filtered
            THEN \* logged as invalid, then `continue`
                 /\ controller' = sel.controller
                 /\ engine' = [LogIteration(engine, FALSE) EXCEPT !.i = @ + 1]
                 /\ run' = [run EXCEPT
                               !.executed = Append(@, [i |-> engine.i,
                                                       phase |-> sel.phase])]
                 /\ ret' = [NoPass("engine.iterate") EXCEPT
                               !.i = engine.i, !.source = sel.source,
                               !.api = e.api, !.continued = TRUE]
                 /\ UNCHANGED <<corpus, tracker, dedup, space, disk>>
            ELSE \E t \in {TestOracles(e.outcomes)} :
                 \E u \in {Tracker_update(tracker,
                                          [kind |-> "set",
                                           val |-> t.all_captured_kernels],
                                          engine.i)} :
                 \E grown \in {IF Admits(u.num_fresh)
                                THEN Corpus_add_seed(corpus, e.api,
                                                     t.all_captured_kernels)
                                ELSE corpus} :
                 \E expanded \in {IF u.should_expand
                                   THEN Controller_enter_expansion_mode(sel.controller)
                                   ELSE sel.controller} :
                 \E leaves \in {u.num_fresh > 0 /\ expanded.expansion_mode} :
                 \E at_checkpoint \in
                        {(engine.i + 1) % engine.checkpoint_interval = 0} :
                 \E hit \in {IF t.execution_valid
                              THEN Space_record_hit(space, EngineApi, e.api, TRUE).self
                              ELSE space} :
                 \E bugs \in {RecordBugs(dedup, t.bug_infos, engine.i)} :
                 \* a save that is not called, a guard that is not asked: one
                 \* value
                 \E fault \in (IF at_checkpoint THEN EngineSaveFaults
                               ELSE {"none"}),
                    is_critical \in (IF at_checkpoint THEN BOOLEAN ELSE {FALSE}) :
                 \E saved \in
                        {IF at_checkpoint
                         THEN Checkpoint_save(
                                  saver.manager, disk, engine.i, u.self.all_kernels,
                                  Some(grown.corpus), engine.logger_iterations + 1,
                                  fault,
                                  IF fault = "dump"
                                  THEN Len(Pickle_dumps(CheckpointData(
                                               saver.manager, engine.i,
                                               u.self.all_kernels, Some(grown.corpus),
                                               engine.logger_iterations + 1))) \div 2
                                  ELSE 0)
                         ELSE [disk |-> disk, result |-> FALSE]} :
                 /\ dedup' = bugs
                 /\ space' = hit
                 /\ tracker' = u.self
                 /\ controller' = IF leaves
                                  THEN Controller_exit_expansion_mode(expanded)
                                  ELSE expanded
                 /\ corpus' = grown
                 /\ disk' = saved.disk
                 /\ engine' = [LogIteration(engine, t.execution_valid) EXCEPT
                                 !.i = IF at_checkpoint /\ is_critical
                                       THEN @ ELSE @ + 1,
                                 !.pc = IF at_checkpoint /\ is_critical
                                        THEN "after" ELSE @,
                                 !.stopped = at_checkpoint /\ is_critical]
                 /\ run' = [run EXCEPT
                               !.executed = Append(@, [i |-> engine.i,
                                                       phase |-> sel.phase])]
                 /\ ret' = [op |-> "engine.iterate", i |-> engine.i,
                            source |-> sel.source,
                            api |-> e.api,
                            continued |-> FALSE,
                            threw |-> \E j \in DOMAIN e.outcomes :
                                          e.outcomes[j].raised,
                            all_raised |-> \A j \in DOMAIN e.outcomes :
                                               e.outcomes[j].raised,
                            valid |-> t.execution_valid,
                            kernels |-> t.all_captured_kernels,
                            new_count |-> u.num_fresh,
                            should_expand |-> u.should_expand,
                            entered |-> u.should_expand,
                            exited |-> leaves,
                            broke |-> at_checkpoint /\ is_critical,
                            save_called |-> at_checkpoint,
                            save_result |-> saved.result,
                            save_args |->
                                IF at_checkpoint
                                THEN Some([iteration |-> engine.i,
                                           coverage_kernels |-> u.self.all_kernels,
                                           corpus_seeds |-> Some(grown.corpus),
                                           logger_iterations |->
                                               engine.logger_iterations + 1])
                                ELSE None,
                            calls |-> Len(e.outcomes)]
    /\ UNCHANGED <<heap, library, hkg, variant, clock, detector, saver, recorded, fed, admitted,
                   streak, seen>>

\* a KeyboardInterrupt reaches the loop: no handler of the script takes it
\* (the `except Exception` clauses do not), and run_fuzzing_loop is left
Interrupt ==
    /\ engine.pc = "loop"
    /\ engine' = [engine EXCEPT !.pc = "interrupted"]
    /\ ret' = NoPass("engine.interrupt")
    /\ UNCHANGED <<heap, bugvars, filevars, run, variant, clock, tracker, detector,
                   corpus, controller, space, fed, admitted, streak, seen>>

\* the loop is over, by range or by break: the checkpoint is cleared
EngineFinish ==
    /\ \/ engine.pc = "after"
       \/ engine.pc = "loop" /\ ~InRange(engine.i, engine.max_iterations)
    /\ disk' = Checkpoint_clear(saver.manager, disk)
    /\ engine' = [engine EXCEPT !.pc = "done"]
    /\ ret' = [op |-> "engine.finish"]
    /\ UNCHANGED <<heap, bugvars, run, saver, variant, clock, tracker, detector, corpus,
                   controller, space, fed, admitted, streak, seen>>

\* the process is stopped, or has ended, and the command is given again:
\* everything is built anew, the files are as they were left
Rerun ==
    /\ engine.pc \in {"loop", "interrupted", "after", "done"}
    /\ run.number < MaxRuns
    /\ engine' = Constructed(engine.max_iterations, engine.checkpoint_interval,
                             engine.warmup_ratio)
    /\ run' = NewRun(run.number + 1)
    /\ tracker' = BuiltTracker
    /\ corpus' = BuiltCorpus
    /\ controller' = Controller_init
    /\ space' = BuiltSpace
    /\ dedup' = BuiltDedup
    /\ saver' = NoSave(BuiltManager)
    /\ ret' = [op |-> "engine.construct"]
    /\ UNCHANGED <<heap, library, hkg, disk, recorded, variant, clock, detector, fed, admitted,
                   streak, seen>>

NextEngine == EngineStart \/ EngineIterate \/ EngineFinish \/ Interrupt \/ Rerun

SpecEngine == InitEngine /\ [][NextEngine]_vars

(***************************************************************************)
(* SpecRun: one run of run_fuzzing_loop that nothing interrupts, on an     *)
(* empty directory or on one that holds a checkpoint.  The loop is one     *)
(* thread that goes from statement to statement: a step that can be taken  *)
(* is taken.                                                               *)
(***************************************************************************)
\* a checkpoint an earlier run left: its iteration 0 found k1 with a seed
LeftCheckpoint ==
    Checkpoint_save(BuiltManager, EmptyDict, 0, {"k1"},
                    Some(<< << [name |-> "input",
                                arg |-> Some(TensorArg("float32"))] >> >>),
                    1, "none", 0).disk

InitRun ==
    /\ clock = 0
    /\ ret = NoCall
    /\ fed = {}
    /\ admitted = <<>>
    /\ streak = NoStreak
    /\ seen = [a \in ApiNames |-> {}]
    /\ recorded = [b \in Buckets |-> <<>>]
    /\ variant = "full"
    /\ detector = Detector_init(1, 1)
    /\ tracker = BuiltTracker
    /\ corpus = BuiltCorpus
    /\ controller = Controller_init
    /\ space = BuiltSpace
    /\ dedup = BuiltDedup
    /\ library = Library_init
    /\ hkg = NoCopies
    /\ disk \in {EmptyDict, LeftCheckpoint}
    /\ saver = NoSave(BuiltManager)
    /\ \E max_iterations \in 1..MaxRunIterations,
          checkpoint_interval \in CheckpointIntervals,
          warmup_ratio \in EngineRatios :
        engine = Constructed(max_iterations, checkpoint_interval, warmup_ratio)
    /\ run = NewRun(1)
    /\ heap = NoObjects

NextRun == EngineStart \/ EngineIterate \/ EngineFinish

SpecRun == InitRun /\ [][NextRun]_vars /\ WF_vars(NextRun)

(***************************************************************************)
(* SpecLoops: the loops of both scripts.  HKGFuzzEngine.run of             *)
(* benchmark_full_oracle_tc.py has no checkpoint, no saturation detector   *)
(* and no mutation controller: a pass draws its source, filters, tests,    *)
(* updates coverage, space and corpus, and writes a row of the CSV log.    *)
(***************************************************************************)
\* HKGFuzzEngine as __init__ leaves it
HkgConstructed(max_iterations, checkpoint_interval, warmup_ratio) ==
    [pc |-> "hkg.new",
     max_iterations |-> max_iterations,
     checkpoint_interval |-> checkpoint_interval,
     warmup_ratio |-> warmup_ratio,
     warmup_end_iteration |-> 0,
     current_phase |-> "init",
     i |-> 0,
     row_count |-> 0]

\* the loop over self.oracles of HKGFuzzEngine.run: the result of
\* test_with_oracle goes to all_captured_kernels.update() as it is, so a
\* result that is a tuple (kernels, bug_info) raises TypeError inside the try
HkgTestOracles(outcomes) ==
    TestOracles([j \in DOMAIN outcomes |->
                    IF outcomes[j].bug_info.some THEN Raises ELSE outcomes[j]])

InitHkg ==
    /\ clock = 0
    /\ ret = NoCall
    /\ fed = {}
    /\ admitted = <<>>
    /\ streak = NoStreak
    /\ seen = [a \in ApiNames |-> {}]
    /\ recorded = [b \in Buckets |-> <<>>]
    /\ variant = "hkg"
    /\ detector = Detector_init(1, 1)
    /\ tracker = HkgTracker_init
    /\ corpus = HkgCorpus_init(EngineCorpusSize)
    /\ controller = Controller_init
    /\ space = HkgSpace_register_api(HkgSpace_init, EngineApi, None)
    /\ dedup = BuiltDedup
    /\ library = Library_init
    /\ hkg = NoCopies
    /\ disk = EmptyDict
    /\ saver = NoSave(BuiltManager)
    /\ \E max_iterations \in 1..MaxIterations,
          checkpoint_interval \in CheckpointIntervals,
          warmup_ratio \in EngineRatios :
        engine = HkgConstructed(max_iterations, checkpoint_interval, warmup_ratio)
    /\ run = NewRun(1)
    /\ heap = NoObjects

\* run() up to the `for`
HkgStart ==
    /\ engine.pc = "hkg.new"
    /\ engine' = [engine EXCEPT
                    !.pc = "hkg.loop",
                    !.warmup_end_iteration =
                        ThresholdOf(engine.max_iterations, engine.warmup_ratio)]
    /\ ret' = NoPass("hkg.start")
    /\ UNCHANGED <<heap, bugvars, filevars, run, variant, clock, tracker, detector,
                   corpus, controller, space, fed, admitted, streak, seen>>

\* one pass of the loop of run() for index i
HkgIterate ==
    /\ engine.pc = "hkg.loop"
    /\ InRange(engine.i, engine.max_iterations)
    /\ \E e \in Executions, r \in ExploreDraws, q \in ExploreDraws :
        /\ engine.i < engine.warmup_end_iteration => r = 0
        /\ (\/ engine.i < engine.warmup_end_iteration
            \/ r < HkgEpsilon
            \/ Corpus_size(corpus) = 0) => q = 0
        /\ \E sel \in {HkgSelectSource(engine.i, engine.warmup_end_iteration,
                                        corpus, r, q)} :
            IF e.filtered
            THEN \* _log_iteration(i, source, api, valid=False), then `continue`
                 /\ engine' = [engine EXCEPT !.current_phase = sel.phase,
                                             !.row_count = @ + 1,
                                             !.i = @ + 1]
                 /\ ret' = [NoPass("hkg.iterate") EXCEPT
                               !.i = engine.i, !.source = sel.source,
                               !.api = e.api, !.continued = TRUE]
                 /\ UNCHANGED <<corpus, tracker, space>>
            ELSE \E t \in {HkgTestOracles(e.outcomes)} :
                 \E u \in {HkgTracker_update(tracker,
                                             [kind |-> "set",
                                              val |-> t.all_captured_kernels],
                                             engine.i)} :
                 /\ tracker' = u.self
                 /\ space' = IF t.execution_valid
                             THEN HkgSpace_record_hit(space, EngineApi, Some(e.api),
                                                      None, Some(engine.i)).self
                             ELSE space
                 /\ corpus' = IF Admits(u.num_fresh)
                              THEN HkgCorpus_add_seed(corpus, e.api,
                                                      t.all_captured_kernels)
                              ELSE corpus
                 /\ engine' = [engine EXCEPT !.current_phase = sel.phase,
                                             !.row_count = @ + 1,
                                             !.i = @ + 1]
                 /\ ret' = [NoPass("hkg.iterate") EXCEPT
                               !.i = engine.i, !.source = sel.source,
                               !.api = e.api,
                               !.threw = \E j \in DOMAIN e.outcomes :
                                             e.outcomes[j].raised,
                               !.valid = t.execution_valid,
                               !.kernels = t.all_captured_kernels,
                               !.new_count = u.num_fresh,
                               !.calls = Len(e.outcomes)]
    /\ UNCHANGED <<heap, bugvars, filevars, run, variant, clock, detector,
                   controller, fed, admitted, streak, seen>>

\* the loop is over: _finalize
HkgFinish ==
    /\ engine.pc = "hkg.loop"
    /\ ~InRange(engine.i, engine.max_iterations)
    /\ engine' = [engine EXCEPT !.pc = "hkg.done"]
    /\ ret' = NoPass("hkg.finish")
    /\ UNCHANGED <<heap, bugvars, filevars, run, variant, clock, tracker, detector,
                   corpus, controller, space, fed, admitted, streak, seen>>

NextHkg == HkgStart \/ HkgIterate \/ HkgFinish

InitLoops == InitEngine \/ InitHkg

NextLoops == NextEngine \/ NextHkg

SpecLoops == InitLoops /\ [][NextLoops]_vars

(***************************************************************************)
(* SpecPhases: the warm-up threshold and the source decision of both       *)
(* scripts as functions, for runs as long as the command line allows.      *)
(***************************************************************************)
IterationCounts == {1, 2, 3, 10, 50, 100}
WarmupRatios == {0, 10, 29, 50, 100}

InitPhases ==
    /\ clock = 0
    /\ ret = NoCall
    /\ fed = {}
    /\ admitted = <<>>
    /\ streak = NoStreak
    /\ seen = [a \in ApiNames |-> {}]
    /\ recorded = [b \in Buckets |-> <<>>]
    /\ dedup = BuiltDedup
    /\ library = Library_init
    /\ hkg = NoCopies
    /\ disk = EmptyDict
    /\ saver = NoSave(BuiltManager)
    /\ run = NewRun(1)
    /\ heap = NoObjects
    /\ variant \in Variants
    /\ detector = Detector_init(1, 1)
    /\ tracker = HkgTracker_init
    /\ \E seeds \in {<<>>, <<"api1">>, <<"api1", "api2">>} :
          corpus = IF variant = "full"
                   THEN [Corpus_init(EngineCorpusSize) EXCEPT !.corpus = seeds]
                   ELSE [HkgCorpus_init(EngineCorpusSize) EXCEPT
                            !.corpus = seeds,
                            !.seed_scores = [k \in DOMAIN seeds |-> k]]
    /\ controller = Controller_init
    /\ space = Space_init(1)
    /\ \E max_iterations \in IterationCounts, warmup_ratio \in WarmupRatios,
          enable_patches \in BOOLEAN :
        /\ variant = "hkg" => enable_patches
        /\ ~enable_patches => corpus.corpus = <<>>
        /\ engine = [Constructed(max_iterations, 1, warmup_ratio) EXCEPT
                        !.enable_patches = enable_patches]

\* the threshold is worked out
Plan ==
    /\ engine.pc = "new"
    /\ engine' = [engine EXCEPT
                    !.pc = "loop",
                    !.warmup_threshold = WarmupThreshold(engine.max_iterations,
                                                         engine.warmup_ratio)]
    /\ ret' = [op |-> "engine.plan"]
    /\ UNCHANGED <<heap, bugvars, filevars, run, variant, clock, tracker, detector,
                   corpus, controller, space, fed, admitted, streak, seen>>

\* the source decision of the next iteration of the run and the seed the
\* candidate is copied from
Select ==
    /\ engine.pc = "loop"
    /\ engine.i < engine.max_iterations
    /\ \E r \in ExploreDraws, q \in ExploreDraws :
        LET sel == IF variant = "full"
                   THEN SelectSource(engine.i, engine.warmup_threshold,
                                     engine.enable_patches, controller,
                                     corpus, r, q)
                   ELSE HkgSelectSource(engine.i, engine.warmup_threshold, corpus,
                                        r, q)
            parents == IF variant = "full"
                       THEN Parents(sel.source, TRUE,
                                    Corpus_select_parent(corpus), corpus)
                       ELSE Parents(sel.source, Corpus_size(corpus) > 0,
                                    HkgCorpus_select_parent(corpus), corpus)
        IN  \E parent \in parents :
            ret' = [op |-> "engine.select", i |-> engine.i, phase |-> sel.phase,
                    source |-> sel.source, asked |-> sel.asked,
                    consulted |-> sel.consulted, explore |-> sel.explore,
                    q |-> q, parent |-> parent]
    /\ engine' = [engine EXCEPT !.i = @ + 1]
    /\ UNCHANGED <<heap, bugvars, filevars, run, variant, clock, tracker,
                   detector, corpus, controller, space, fed, admitted, streak,
                   seen>>

NextPhases == Plan \/ Select

SpecPhases == InitPhases /\ [][NextPhases]_vars

(***************************************************************************)
(* SpecAlias: the objects of the loop.  A candidate is made new or copied  *)
(* from a seed select_parent() returned, is mutated, and is handed to      *)
(* add_seed; a caller may mutate it again afterwards.  The corpus holds    *)
(* references to the objects add_seed stored.                              *)
(***************************************************************************)
InitAlias ==
    /\ Idle
    /\ variant \in Variants
    /\ detector = Detector_init(1, 1)
    /\ tracker = HkgTracker_init
    /\ \E max_size \in 1..MaxCorpusSize :
          corpus = IF variant = "full" THEN Corpus_init(max_size)
                   ELSE HkgCorpus_init(max_size)
    /\ controller = Controller_init
    /\ space = Space_init(1)

\* api = TorchAPI(self.api_name)
NewCandidate ==
    /\ Len(heap.objects) + 2 <= MaxObjects
    /\ \E v \in ArgValues :
        LET n == NewApi(heap, v)
        IN  heap' = [n.heap EXCEPT !.api = n.id, !.parent = 0, !.passed = FALSE]
    /\ ret' = [op |-> "api.new"]
    /\ UNCHANGED <<bugvars, filevars, engine, run, variant, clock, tracker,
                   detector, corpus, controller, space, fed, admitted, streak,
                   seen>>

\* parent_api = self.corpus.select_parent(); api = copy.deepcopy(parent_api)
CopyParent ==
    /\ Corpus_size(corpus) > 0
    /\ Len(heap.objects) + 2 <= MaxObjects
    /\ \E k \in (IF variant = "full" THEN Corpus_select_parent(corpus)
                  ELSE HkgCorpus_select_parent(corpus)) :
        LET c == DeepCopy(heap, corpus.corpus[k])
        IN  heap' = [c.heap EXCEPT !.api = c.id, !.parent = corpus.corpus[k],
                                   !.passed = FALSE]
    /\ ret' = [op |-> "api.copy"]
    /\ UNCHANGED <<bugvars, filevars, engine, run, variant, clock, tracker,
                   detector, corpus, controller, space, fed, admitted, streak,
                   seen>>

\* api.mutate()
MutateCandidate ==
    /\ heap.api # 0
    /\ \E k \in 1..Len(heap.objects[heap.api].args), v \in ArgValues :
        \/ heap' = MutateInPlace(heap, heap.api, k, v)
        \/ /\ Len(heap.objects) + 1 <= MaxObjects
           /\ heap' = MutateReplace(heap, heap.api, k, v)
    /\ ret' = [op |-> "api.mutate"]
    /\ UNCHANGED <<bugvars, filevars, engine, run, variant, clock, tracker,
                   detector, corpus, controller, space, fed, admitted, streak,
                   seen>>

\* self.corpus.add_seed(api, all_captured_kernels): the copy is made, and
\* stored, when the kernel set is not empty
Admit ==
    /\ heap.api # 0
    /\ Len(heap.objects) + 2 <= MaxObjects
    /\ \E discovered_kernels \in {{}, {"k1"}, Tokens} :
        LET c == DeepCopy(heap, heap.api)
        IN  IF discovered_kernels = {}
            THEN UNCHANGED <<corpus, heap>>
            ELSE /\ corpus' = IF variant = "full"
                              THEN Corpus_add_seed(corpus, c.id, discovered_kernels)
                              ELSE HkgCorpus_add_seed(corpus, c.id,
                                                      discovered_kernels)
                 /\ heap' = [c.heap EXCEPT !.passed = TRUE]
    /\ ret' = [op |-> "corpus.add_seed"]
    /\ UNCHANGED <<bugvars, filevars, engine, run, variant, clock, tracker,
                   detector, controller, space, fed, admitted, streak, seen>>

NextAlias == NewCandidate \/ CopyParent \/ MutateCandidate \/ Admit

SpecAlias == InitAlias /\ [][NextAlias]_vars

(***************************************************************************)
(* Properties.                                                             *)
(***************************************************************************)

\* C1: after every call of EnhancedCoverageTracker.update, get_total() is the
\* number of distinct tokens passed to update so far (the cardinality of the
\* union of the arguments), and no call makes get_total() smaller.
C1_TotalIsUnionSize ==
    /\ [](Tracker_get_total(tracker) = Cardinality(fed))
    /\ [][Tracker_get_total(tracker') >= Tracker_get_total(tracker)]_vars

\* a second call brought a token that was known together with one that was not
C1_Witness ==
    /\ ret.op = "tracker.update"
    /\ Len(tracker.history) >= 2
    /\ ret.num_fresh >= 1
    /\ ret.num_fresh < Cardinality(AsSet(ret.new_kernels))

\* C2: the corpus holds the last min(n, max_size) admitted seeds, oldest
\* first, where n counts the add_seed calls with a non-empty kernel set (a
\* call with an empty one changes nothing), and never more than max_size.
C2_CorpusIsLastAdmitted ==
    /\ corpus.corpus = LastN(admitted, Min(Len(admitted), corpus.max_size))
    /\ Corpus_size(corpus) <= corpus.max_size

\* seeds were evicted, and the last call came with no kernel
C2_Witness ==
    /\ Len(admitted) > corpus.max_size
    /\ ret.op = "corpus.add_seed"
    /\ ret.discovered_kernels = {}

\* C3, as stated: once a run of update calls without growth is patience calls
\* long and has passed a check boundary, should_expand has been returned true
\* exactly once in it.
C3_ExpandWithinPatience ==
    (streak.len >= detector.patience /\ streak.boundaries >= 1)
        => streak.expands = 1

\* C3, amended: in a run of update calls without growth, should_expand is
\* returned true at most once, and it has been returned true exactly when
\* one call of the run fell on a check boundary with the run already
\* patience calls long.
C3_ExpandOncePerStreak ==
    /\ streak.expands <= 1
    /\ streak.expands = 1 <=> streak.qualified

\* should_expand was returned, and the calls without growth went on past a
\* further check boundary
C3_Witness ==
    /\ ret.op = "detector.update"
    /\ ~ret.should_expand
    /\ streak.expands = 1
    /\ streak.boundaries >= 2
    /\ streak.len > detector.patience

\* C4: an update call that sees growth (current_kernels > last_kernel_count)
\* while the detector is in expansion mode returns with the detector in
\* normal mode, no_discovery_count = 0 and should_expand = false, on a check
\* boundary or off it.
C4_GrowthLeavesExpansion ==
    (/\ ret.op = "detector.update"
     /\ ret.before.expansion_mode
     /\ ret.current_kernels > ret.before.last_kernel_count)
        => /\ ~detector.expansion_mode
           /\ detector.no_discovery_count = 0
           /\ ~ret.should_expand

\* growth was seen in expansion mode by a call that was not on a check boundary
C4_Witness ==
    /\ ret.op = "detector.update"
    /\ ret.before.expansion_mode
    /\ ret.current_kernels > ret.before.last_kernel_count
    /\ ret.iteration - ret.before.last_check_iteration < ret.before.check_interval

\* C5: update returns should_expand = true only in a call with
\* iteration - last_check_iteration >= check_interval, no_discovery_count >=
\* patience and the detector in normal mode; that call puts the detector in
\* expansion mode, and no other call (of update or of reset) takes the
\* detector from normal to expansion mode.
C5_ExpansionOnlyAtBoundary ==
    /\ ret.op = "detector.update" =>
          /\ ret.should_expand =>
                /\ ret.iteration - ret.before.last_check_iteration
                       >= ret.before.check_interval
                /\ detector.no_discovery_count >= detector.patience
                /\ ~ret.before.expansion_mode
                /\ detector.expansion_mode
          /\ (~ret.before.expansion_mode /\ detector.expansion_mode)
                => ret.should_expand
    /\ ret.op = "detector.reset" => ~detector.expansion_mode

\* a call returned should_expand = true
C5_Witness ==
    /\ ret.op = "detector.update"
    /\ ret.should_expand
    /\ detector.expansion_mode

\* C6: the active (current_epsilon, current_range) is (base_epsilon,
\* surgical_range) outside expansion mode and (expansion_epsilon,
\* exploration_range) inside it, and no call changes one of the two without
\* the other.
C6_PairedParameters ==
    /\ [](IF controller.expansion_mode
          THEN /\ controller.current_epsilon = controller.expansion_epsilon
               /\ controller.current_range = controller.exploration_range
          ELSE /\ controller.current_epsilon = controller.base_epsilon
               /\ controller.current_range = controller.surgical_range)
    /\ [][(controller'.current_epsilon # controller.current_epsilon)
              <=> (controller'.current_range # controller.current_range)]_vars

\* should_explore was called in expansion mode, after calls in both modes
C6_Witness ==
    /\ ret.op = "controller.should_explore"
    /\ controller.expansion_mode
    /\ controller.exploration_count >= 1
    /\ controller.exploitation_count >= 1

\* C7: get_coverage of a target is a fraction of [0, 1]: the number of stored
\* combinations never exceeds the denominator computed at registration.
C7_CoverageWithinUnit ==
    \A t \in ApiNames :
        /\ 0 <= Coverage(space, t).num
        /\ Coverage(space, t).num <= Coverage(space, t).den

\* C8: the denominator of a registered target is the product of the sizes of
\* its axis domains (the number of points of their cartesian product), and no
\* call of record_hit on a registered target changes it.
C8_DenominatorIsProduct ==
    /\ [](\A t \in DOMAIN space.api_dimensions :
             Denominator(space, t) = CartesianSize(space.api_dimensions[t]))
    /\ [][\A t \in DOMAIN space.api_dimensions :
             ret'.op = "space.record_hit"
                 => /\ t \in DOMAIN space'.api_dimensions
                    /\ Denominator(space', t) = Denominator(space, t)]_vars

\* a target registered with domains of sizes 2 and 3 has the denominator 6,
\* and still has it after a call of record_hit stored a combination for it
C8_Witness ==
    /\ ret.op = "space.record_hit"
    /\ ret.api_name \in DOMAIN space.api_dimensions
    /\ Len(space.api_dimensions[ret.api_name]) = 2
    /\ Len(space.api_dimensions[ret.api_name][1].values) = 2
    /\ Len(space.api_dimensions[ret.api_name][2].values) = 3
    /\ Denominator(space, ret.api_name) = 6
    /\ Hits(space, ret.api_name) # {}

C10_EveryObservationRecorded ==
    ret.op = "space.record_hit"
        => IF variant = "hkg"
           THEN LET c == CallCombination(ret, space)
                IN  {<<n, c[n]>> : n \in DOMAIN c} \in space.api_hits[ret.api_name]
           ELSE Space_state_hash(ret.api.val, ret.is_cuda)
                    \in space.hits[ret.api_name]

\* the hits stored, summed over all targets
RECURSIVE StoredTotalOver(_, _)
StoredTotalOver(s, names) ==
    IF names = {} THEN 0
    ELSE LET n == CHOOSE x \in names : TRUE
         IN  Cardinality(Hits(s, n)) + StoredTotalOver(s, names \ {n})
StoredTotal(s) == StoredTotalOver(s, ApiNames)

\* C11: in benchmark_full_oracle.py the hits stored, summed over all targets,
\* never exceed max_hits (nor the count of stores made so far), and once the
\* cap is reached a record_hit stores nothing, returns false and adds one to
\* the overflow counter.
C11_StoredWithinCap ==
    /\ [](variant = "full"
            => /\ StoredTotal(space) <= space.total_records
               /\ StoredTotal(space) <= space.max_hits)
    /\ [][(variant = "full" /\ ret'.op = "space.record_hit"
             /\ space.total_records >= space.max_hits)
            => /\ \A a \in ApiNames : Hits(space', a) = Hits(space, a)
               /\ ~ret'.result
               /\ space'.overflow_warnings = space.overflow_warnings + 1
               /\ space'.total_records = space.total_records]_vars

\* the stored hits fill the cap, and a record_hit of a combination its target
\* does not hold was turned away and tallied as overflow
C11_Witness ==
    /\ variant = "full"
    /\ ret.op = "space.record_hit"
    /\ StoredTotal(space) = space.max_hits
    /\ space.max_hits = MaxHitsCap
    /\ space.overflow_warnings >= 1
    /\ ~ret.result
    /\ ObservedDtypes(ret.api.val) # {}
    /\ Space_state_hash(ret.api.val, ret.is_cuda) \notin space.hits[ret.api_name]

\* the diagnostic a text of the model renders
DiagnosticOf ==
    [m \in {Render(d) : d \in Diagnostics} |->
        CHOOSE d \in Diagnostics : Render(d) = m]

\* the two texts are one frame around two values
SameButValue(t1, t2) ==
    /\ t1 \in DOMAIN DiagnosticOf
    /\ t2 \in DOMAIN DiagnosticOf
    /\ DiagnosticOf[t1].frame = DiagnosticOf[t2].frame

\* the value of a diagnostic reads as an integer, a fraction or an address
KindOfValue(v) ==
    IF StartsAt(v, 1, "0x") THEN "address"
    ELSE IF Contains(v, ".") THEN "fraction"
    ELSE "integer"

\* the place of the frame has no letter, digit or underscore next to it
StandsAlone(f) ==
    /\ Len(f.before) = 0 \/ At(f.before, Len(f.before)) \notin WordChars
    /\ Len(f.after) = 0 \/ At(f.after, 1) \notin WordChars

\* the two texts are one frame around two values of one kind, integers only
\* in a place that stands alone
SameButValueOfKind(t1, t2) ==
    /\ SameButValue(t1, t2)
    /\ KindOfValue(DiagnosticOf[t1].value) = KindOfValue(DiagnosticOf[t2].value)
    /\ KindOfValue(DiagnosticOf[t1].value) = "integer"
            => StandsAlone(DiagnosticOf[t1].frame)

\* C12, as stated: when record_bug is given a text that is an earlier text of
\* the same bucket up to the decimal number or address in it, it returns the
\* signature it returned then and is_new = false.
C12_NumbersCanonicalized ==
    [][ret'.op = "dedup.record_bug"
          => \A i \in 1..Len(recorded[ret'.bucket]) :
                SameButValue(recorded[ret'.bucket][i].error_msg, ret'.error_msg)
                    => /\ ret'.signature = recorded[ret'.bucket][i].signature
                       /\ ~ret'.is_new]_vars

\* C12, amended: when record_bug is given a text that is an earlier text of
\* the same bucket up to the value of a 0x address, of a fraction
\* (digits.digits) or of an integer standing alone, it returns the signature
\* it returned then and is_new = false.
C12_LoneNumbersCanonicalized ==
    [][ret'.op = "dedup.record_bug"
          => \A i \in 1..Len(recorded[ret'.bucket]) :
                SameButValueOfKind(recorded[ret'.bucket][i].error_msg, ret'.error_msg)
                    => /\ ret'.signature = recorded[ret'.bucket][i].signature
                       /\ ~ret'.is_new]_vars

\* a text was stored as new, and the same frame around another integer, put
\* in the same bucket, came back with the same signature and is_new = false
C12_Witness ==
    /\ ret.op = "dedup.record_bug"
    /\ ~ret.is_new
    /\ \E i \in 1..Len(recorded[ret.bucket]) - 1 :
        LET first == recorded[ret.bucket][i]
        IN  /\ first.is_new
            /\ first.error_msg # ret.error_msg
            /\ SameButValueOfKind(first.error_msg, ret.error_msg)
            /\ Contains(ret.error_msg, "invalid size 42")
            /\ first.signature = ret.signature
            /\ Contains(ret.signature, "INT")

\* the markers of a process-level crash
FatalMarkers == {"Segmentation fault", "segfault", "core_dump"}

\* C13: a text that contains a fatal/segfault marker is classified into the
\* fatal category, whatever else it contains.
C13_FatalMarkerWins ==
    (ret.op = "analyzer.classify_bug"
        /\ \E m \in FatalMarkers : Contains(ret.content, m))
        => ret.result = "CRITICAL_SEGFAULT"

\* C14: in every bucket the unique counter is the size of the stored set, and
\* of the record_bug calls made on the bucket no two with the same signature
\* hash returned is_new = true.
C14_NoDoubleCount ==
    \A b \in Buckets :
        /\ dedup.unique_bugs[b] = Cardinality(dedup.signatures[b])
        /\ \A i \in 1..Len(recorded[b]), j \in 1..Len(recorded[b]) :
                (i < j /\ recorded[b][i].is_new /\ recorded[b][j].is_new)
                    => Md5_12(recorded[b][i].signature) # Md5_12(recorded[b][j].signature)

\* a bucket was given two texts of one signature: the first was new, the
\* second was not, and the bucket counts one unique bug in two
C14_Witness ==
    \E b \in Buckets :
        /\ Len(recorded[b]) = 2
        /\ recorded[b][1].is_new
        /\ ~recorded[b][2].is_new
        /\ recorded[b][1].signature = recorded[b][2].signature
        /\ dedup.unique_bugs[b] = 1
        /\ dedup.total_bugs[b] = 2
        /\ dedup.max_signatures = MaxSignaturesCap

\* C15: a bucket never stores more than max_signatures signatures; every
\* record_bug call adds exactly one to the total counter of its bucket and
\* leaves the other totals alone; and a call that finds its bucket at capacity
\* and its signature not stored stores nothing and returns is_new = false.
C15_CapacityUndercounts ==
    /\ [](\A b \in Buckets : Cardinality(dedup.signatures[b]) <= dedup.max_signatures)
    /\ [][ret'.op = "dedup.record_bug"
            => LET b == ret'.bucket
               IN  /\ dedup'.total_bugs
                          = [dedup.total_bugs EXCEPT ![b] = dedup.total_bugs[b] + 1]
                   /\ (/\ Cardinality(dedup.signatures[b]) >= dedup.max_signatures
                       /\ Md5_12(ret'.signature) \notin dedup.signatures[b])
                          => /\ ~ret'.is_new
                             /\ dedup'.signatures = dedup.signatures
                             /\ dedup'.unique_bugs = dedup.unique_bugs
                             /\ dedup'.first_occurrence = dedup.first_occurrence]_vars

\* a bucket at capacity was given a signature it does not hold: nothing was
\* stored, is_new = false came back, and the total counter went up
C15_Witness ==
    /\ ret.op = "dedup.record_bug"
    /\ ~ret.is_new
    /\ Md5_12(ret.signature) \notin dedup.signatures[ret.bucket]
    /\ Cardinality(dedup.signatures[ret.bucket]) = dedup.max_signatures
    /\ dedup.total_bugs[ret.bucket] = dedup.unique_bugs[ret.bucket] + 1

\* the checkpoint file of the strategy and the target of every run here
TheCheckpoint == Checkpoint_init("guided", "torch.add").checkpoint_file

\* C16: load() on a manager made anew for the same strategy and target, right
\* after a save that returned True, returns the saved iteration, the same
\* set of coverage tokens, and the same seeds in the same order.
C16_RoundTrip ==
    (ret.op = "checkpoint.load" /\ ret.follows.some /\ ~ret.raises)
        => /\ ret.result.some
           /\ ret.result.val.iteration = ret.follows.val.iteration
           /\ ret.result.val.coverage_kernels = ret.follows.val.coverage_kernels
           /\ ret.result.val.corpus_seeds = ret.follows.val.corpus_seeds

\* a state with both tokens and two seeds, the later-sorting name first,
\* was saved and then loaded
C16_Witness ==
    /\ ret.op = "checkpoint.load"
    /\ ret.follows.some
    /\ ~ret.raises
    /\ ret.follows.val.coverage_kernels = Tokens
    /\ ret.follows.val.corpus_seeds = Some(<<"api2", "api1">>)
    /\ ret.result = ret.follows

\* C17: at every step, whole save or one call of it, exception or crash, the
\* checkpoint file is afterwards absent, or what it was before, or the whole
\* pickle of the state being saved; it never holds a part of a pickle.
C17_AtomicReplace ==
    [][(TheCheckpoint \in DOMAIN disk')
        => ((TheCheckpoint \in DOMAIN disk
                /\ disk'[TheCheckpoint] = disk[TheCheckpoint])
            \/ (saver.data.some
                /\ disk'[TheCheckpoint] = Pickle_dumps(saver.data.val))
            \/ (ret'.op = "checkpoint.save"
                /\ disk'[TheCheckpoint] = Pickle_dumps(ret'.data)))]_vars

\* a load found the whole checkpoint of an earlier save while the temporary
\* file of a later save, cut short or still going, held part of a pickle
C17_Witness ==
    /\ ret.op = "checkpoint.load"
    /\ ~ret.raises
    /\ ret.result.some
    /\ TempFile(saver.manager) \in DOMAIN disk
    /\ Len(disk[TempFile(saver.manager)]) > 0
    /\ ~Pickle_loads(disk[TempFile(saver.manager)]).some

\* C18: a load that raises leaves the run at iteration 0 with no token and no
\* seed, in the loop; a save that raises is followed by the next iteration
\* unless the disk guard ends the loop at the same boundary.
C18_FailuresRecovered ==
    /\ (ret.op = "engine.start" /\ ret.raises)
          => /\ engine.pc = "loop"
             /\ engine.start_iteration = 0
             /\ engine.i = 0
             /\ tracker.all_kernels = {}
             /\ corpus.corpus = <<>>
    /\ (ret.op = "engine.iterate" /\ ret.save_called /\ ~ret.save_result
            /\ ~ret.broke)
          => /\ engine.pc = "loop"
             /\ engine.i = ret.i + 1

\* a second run found a checkpoint it could not load, started cold, and went
\* on after a save of its own failed
C18_Witness ==
    /\ run.number = 2
    /\ run.found
    /\ ~run.loaded.some
    /\ engine.start_iteration = 0
    /\ ret.op = "engine.iterate"
    /\ ret.save_called
    /\ ~ret.save_result
    /\ engine.pc = "loop"
    /\ engine.i = ret.i + 1

\* the seeds of a checkpoint as the corpus holds them
SeedsOf(data) == IF data.corpus_seeds.some THEN data.corpus_seeds.val ELSE <<>>

\* a run that took over a checkpoint: at loop start it had the saved tokens
\* and seeds, and the k-th index it executed is iteration + k
ResumedInOrder ==
    /\ run.start_kernels = run.loaded.val.coverage_kernels
    /\ run.start_corpus = SeedsOf(run.loaded.val)
    /\ \A k \in 1..Len(run.executed) :
            run.executed[k].i = run.loaded.val.iteration + k
    /\ Len(run.executed) <= engine.max_iterations - 1 - run.loaded.val.iteration

\* C19 as stated: a run resumed from a checkpoint of iteration n starts with
\* the saved tokens and seeds and executes exactly n+1 .. max_iterations-1,
\* in increasing order, each once.
C19_ResumeExecutesRest ==
    (engine.pc # "new" /\ run.loaded.some)
        => /\ ResumedInOrder
           /\ engine.pc = "done"
                => Len(run.executed)
                       = engine.max_iterations - 1 - run.loaded.val.iteration

\* C19, amended: a run resumed from a checkpoint of iteration n starts with
\* the saved tokens and seeds and executes n+1, n+2, ... in increasing
\* order, each once; it ends at max_iterations-1 unless the disk guard was
\* critical at a checkpoint boundary, and then it ends at that boundary.
C19_ResumeExecutesRestUnlessStopped ==
    (engine.pc # "new" /\ run.loaded.some)
        => /\ ResumedInOrder
           /\ (engine.pc = "done" /\ ~engine.stopped)
                => Len(run.executed)
                       = engine.max_iterations - 1 - run.loaded.val.iteration
           /\ engine.stopped
                => /\ Len(run.executed) > 0
                   /\ (run.executed[Len(run.executed)].i + 1)
                          % engine.checkpoint_interval = 0

\* a run took over a checkpoint with tokens and seeds and ran two
\* iterations and more to the end
C19_Witness ==
    /\ engine.pc = "done"
    /\ ~engine.stopped
    /\ run.loaded.some
    /\ run.start_kernels # {}
    /\ Len(run.start_corpus) > 0
    /\ Len(run.executed) >= 2

\* C20: an iteration below floor(max_iterations * warmup_ratio) takes a fresh
\* candidate without asking the policy or the corpus, an iteration from there
\* on is an Evolution iteration, and 100 iterations at ratio 0.1 give the
\* threshold 10.
C20_WarmupBelowFloor ==
    /\ WarmupThreshold(100, 10) = 10
    /\ ret.op = "engine.select"
          => LET floor == (engine.max_iterations * engine.warmup_ratio)
                              \div Hundredths
             IN  /\ ret.i < floor
                      => /\ ret.phase = "warmup"
                         /\ ret.source \in {"warmup_random", "random"}
                         /\ ~ret.asked
                         /\ ~ret.consulted
                 /\ ret.i >= floor => ret.phase = "evolution"

\* C25: EnhancedCoverageTracker.update, in both scripts, returns the number
\* of tokens of its argument that were not known before the call, and appends
\* one history entry (iteration, number of known tokens after the call) per
\* call, also when no token is new.
C25_UpdateCountsAndLogs ==
    [][ret'.op = "tracker.update" =>
          /\ ret'.num_fresh =
                Cardinality(AsSet(ret'.new_kernels) \ tracker.all_kernels)
          /\ tracker'.history =
                Append(tracker.history,
                       <<ret'.iteration, Cardinality(tracker'.all_kernels)>>)]_vars

\* a call that brought known tokens only, after another call
C25_Witness ==
    /\ ret.op = "tracker.update"
    /\ ret.num_fresh = 0
    /\ AsSet(ret.new_kernels) # {}
    /\ Len(tracker.history) >= 2
    /\ tracker.history[Len(tracker.history)] =
          <<ret.iteration, Cardinality(tracker.all_kernels)>>

C22_NoTokensIsFailure ==
    (ret.op = "engine.iterate" /\ ~ret.continued /\ ~ret.threw /\ ret.kernels = {})
        => /\ ~ret.valid
           /\ ~ret.broke => (engine.pc = "loop" /\ engine.i = ret.i + 1)

\* C23: when the loop is left by cancellation, by an interrupt or by the
\* disk guard's critical report, save was called in the step that left it,
\* with the iteration, the coverage set and the corpus of that moment, and a
\* save that went through left them in the checkpoint file.
C23_CancellationSaves ==
    [][(engine.pc = "loop" /\ engine'.pc \in {"after", "interrupted"})
          => /\ ret'.save_called
             /\ ret'.save_result
                  => LET loaded == Checkpoint_load(saver.manager, disk', FALSE)
                     IN  /\ loaded.some
                         /\ loaded.val.iteration = engine.i
                         /\ loaded.val.coverage_kernels = tracker'.all_kernels
                         /\ loaded.val.corpus_seeds = Some(corpus'.corpus)]_vars

\* C24: a run that nothing interrupts reaches the end of run_fuzzing_loop;
\* the loop is left before its range is used up only on the disk guard's
\* critical report, and a run that was not stopped by it has gone through
\* every index from its start to max_iterations - 1.
C24_RunReachesDone ==
    /\ <>(engine.pc = "done")
    /\ [][(engine.pc = "loop" /\ engine'.pc = "after") => ret'.broke]_vars
    /\ []((engine.pc = "done" /\ ~engine.stopped)
            => /\ ~InRange(engine.i, engine.max_iterations)
               /\ engine.start_iteration <= engine.max_iterations
                    => /\ engine.i = engine.max_iterations
                       /\ Len(run.executed)
                             = engine.max_iterations - engine.start_iteration)
    /\ []((engine.pc = "done" /\ engine.stopped)
            => /\ ret.op = "engine.finish"
               /\ InRange(engine.i, engine.max_iterations))

\* a run was stopped by the disk guard with indices left, and is done
C24_Witness ==
    /\ engine.pc = "done"
    /\ engine.stopped
    /\ engine.i + 1 < engine.max_iterations
    /\ Len(run.executed) > 0

\* C26: in every state of a run, resumed or not, every token of the known
\* set has a provenance entry; a pass of the loop gives a token it finds the
\* index of the pass, and within a run no entry is changed or removed.
C26_ProvenanceKept ==
    /\ [](\A k \in tracker.all_kernels : k \in DOMAIN tracker.kernel_provenance)
    /\ [][ret'.op = "engine.iterate"
            => \A k \in tracker'.all_kernels \ tracker.all_kernels :
                    tracker'.kernel_provenance[k] = ret'.i]_vars
    /\ [][ret'.op # "engine.construct"
            => \A k \in DOMAIN tracker.kernel_provenance :
                    /\ k \in DOMAIN tracker'.kernel_provenance
                    /\ tracker'.kernel_provenance[k] = tracker.kernel_provenance[k]]_vars

\* C29: a pass of the loop puts the policy into expansion exactly when the
\* tracker's update returned should_expand, and takes it out of expansion
\* exactly when the pass found a new token while the policy was in
\* expansion; after every pass, and at every other moment of a run, the
\* policy and the detector are in the same mode.
C29_PolicyFollowsDetector ==
    /\ [][(ret'.op = "engine.iterate" /\ ~ret'.continued)
            => /\ ret'.should_expand
                    <=> (~controller.expansion_mode /\ controller'.expansion_mode)
               /\ ret'.should_expand
                    => /\ controller'.current_epsilon = controller.expansion_epsilon
                       /\ controller'.current_range = controller.exploration_range
               /\ (ret'.new_count > 0 /\ controller.expansion_mode)
                    <=> (controller.expansion_mode /\ ~controller'.expansion_mode)
               /\ (ret'.new_count > 0 /\ controller.expansion_mode)
                    => /\ controller'.current_epsilon = controller.base_epsilon
                       /\ controller'.current_range = controller.surgical_range]_vars
    /\ [](controller.expansion_mode
            = tracker.saturation_detector.expansion_mode)

\* the policy went into expansion in one pass and a later pass, finding a
\* token, took it out
C29_Witness ==
    /\ ret.op = "engine.iterate"
    /\ ret.exited
    /\ ret.new_count > 0
    /\ ~controller.expansion_mode
    /\ ~tracker.saturation_detector.expansion_mode
    /\ tracker.saturation_detector.expansion_count = 1

\* C30: a pass of the loop appends its candidate to the corpus if and only
\* if the pass found a new token; a pass that found none, and a pass whose
\* candidate was filtered out, leave the corpus as it was.
C30_AdmittedIffNew ==
    [][ret'.op = "engine.iterate"
          => /\ (~ret'.continued /\ ret'.new_count > 0)
                  => corpus'.corpus = Append(corpus.corpus, ret'.api)
             /\ ~(~ret'.continued /\ ret'.new_count > 0)
                  => corpus'.corpus = corpus.corpus]_vars

\* a pass found a new token and its candidate is the newest seed, after a
\* pass that found none and left the corpus alone
C30_Witness ==
    /\ ret.op = "engine.iterate"
    /\ ret.new_count > 0
    /\ Len(corpus.corpus) = 1
    /\ corpus.corpus[1] = ret.api
    /\ Len(run.executed) >= 2
    /\ ~run.loaded.some

\* C28: in an Evolution iteration the source is exploration when the
\* exploration draw succeeded; otherwise it is corpus exactly when there is
\* a corpus, it holds a seed and the second draw is below the corpus share,
\* and the baseline in every other case; a candidate taken from the corpus
\* is a copy of a seed the corpus holds, and with an empty corpus or none no
\* iteration has the corpus as its source.
C28_EvolutionSource ==
    (ret.op = "engine.select" /\ ret.phase = "evolution")
        => LET stocked == engine.enable_patches /\ Corpus_size(corpus) > 0
           IN  /\ ret.explore => ret.source = "exploration"
               /\ (~ret.explore /\ stocked /\ ret.q < CorpusShare)
                    => ret.source = "corpus"
               /\ (~ret.explore /\ ~(stocked /\ ret.q < CorpusShare))
                    => ret.source = "random"
               /\ ret.source = "corpus"
                    => /\ stocked
                       /\ ret.parent.some
                       /\ \E k \in 1..Len(corpus.corpus) :
                              corpus.corpus[k] = ret.parent.val
               /\ ret.source # "corpus" => ~ret.parent.some

\* an Evolution iteration of either script copied the second seed of the
\* corpus
C28_Witness ==
    /\ ret.op = "engine.select"
    /\ ret.phase = "evolution"
    /\ ret.source = "corpus"
    /\ ret.parent = Some("api2")

\* C27: no step changes what a seed that stays in the corpus looks like,
\* whether the step mutates a candidate that was handed to add_seed or one
\* copied from a seed select_parent returned; the candidate shares no object
\* with a seed of the corpus.
C27_SeedsNotAliased ==
    /\ [][\A id \in Range(corpus.corpus) \cap Range(corpus'.corpus) :
              ValueOf(heap', id) = ValueOf(heap, id)]_vars
    /\ [](heap.api # 0
            => \A k \in 1..Len(corpus.corpus) :
                  Reach(heap, heap.api) \cap Reach(heap, corpus.corpus[k]) = {})

\* a candidate copied from a seed was handed to add_seed and mutated
\* afterwards, in place: it differs from its parent and from its own seed,
\* which are both in the corpus
C27_Witness ==
    /\ ret.op = "api.mutate"
    /\ heap.passed
    /\ Len(corpus.corpus) = 2
    /\ heap.parent = corpus.corpus[1]
    /\ ValueOf(heap, heap.api) # ValueOf(heap, corpus.corpus[1])
    /\ ValueOf(heap, heap.api) # ValueOf(heap, corpus.corpus[2])

\* C31: every pass of the loop for an index i with (i + 1) mod
\* checkpoint_interval = 0 calls CheckpointManager.save with iteration = i
\* and with the token set and the seeds as they are at the end of the pass.
C31_SavedEveryInterval ==
    (ret.op = "engine.iterate"
        /\ (ret.i + 1) % engine.checkpoint_interval = 0)
        => /\ ret.save_called
           /\ ret.save_args.some
           /\ ret.save_args.val.iteration = ret.i
           /\ ret.save_args.val.coverage_kernels = tracker.all_kernels
           /\ ret.save_args.val.corpus_seeds = Some(corpus.corpus)

\* C32: when a run that executed every iteration up to max_iterations is
\* done, neither the checkpoint file nor the metadata file exists; when a
\* run that a critical resource condition stopped is done, the checkpoint
\* it had saved still exists.
C32_ClearedOnlyOnCompletion ==
    /\ [](engine.pc = "done" /\ ~engine.stopped
            => /\ saver.manager.checkpoint_file \notin DOMAIN disk
               /\ saver.manager.metadata_file \notin DOMAIN disk)
    /\ [][(engine.stopped /\ engine'.pc = "done"
              /\ Checkpoint_exists(saver.manager, disk))
            => Checkpoint_exists(saver.manager, disk')]_vars

\* C39: a call of CheckpointManager.save that returns False leaves the
\* persisted checkpoint as it was: load() returns after the call what it
\* returned before it.
C39_FailedSaveKeepsCheckpoint ==
    [][(saver.pc = "idle" /\ ret'.op = "checkpoint.save" /\ ~ret'.result)
        => Checkpoint_load(saver.manager, disk', FALSE)
               = Checkpoint_load(saver.manager, disk, FALSE)]_vars

\* C37: in every state of a run, one resumed from a checkpoint included, the
\* logger's counters satisfy total_iterations = valid_count + invalid_count.
C37_LoggerCountsAddUp ==
    engine.logger_iterations = engine.valid_count + engine.invalid_count

\* C33: a pass whose candidate the outlier filter rejects makes no oracle
\* call and leaves the token set, the hit sets of the coverage space, the
\* corpus, the saturation detector and the mode of the policy as they were;
\* the pass is logged with valid = False.
C33_FilteredPassChangesNothing ==
    [][(ret'.op \in {"engine.iterate", "hkg.iterate"} /\ ret'.continued)
        => /\ ret'.calls = 0
           /\ tracker' = tracker
           /\ space' = space
           /\ corpus' = corpus
           /\ dedup' = dedup
           /\ controller'.expansion_mode = controller.expansion_mode
           /\ controller'.current_epsilon = controller.current_epsilon
           /\ controller'.current_range = controller.current_range
           /\ ~ret'.valid
           /\ ret'.op = "engine.iterate"
                => /\ engine'.logger_iterations = engine.logger_iterations + 1
                   /\ engine'.invalid_count = engine.invalid_count + 1
                   /\ engine'.valid_count = engine.valid_count
           /\ ret'.op = "hkg.iterate"
                => engine'.row_count = engine.row_count + 1]_vars

\* a candidate was rejected in a pass of the Evolution phase that followed a
\* pass with tokens: the run has tokens, hits and a seed, and the draw of
\* should_explore was counted
C33_Witness ==
    /\ ret.op = "engine.iterate"
    /\ ret.continued
    /\ ret.source = "corpus"
    /\ tracker.all_kernels # {}
    /\ Len(corpus.corpus) > 0
    /\ space.total_records > 0
    /\ controller.exploration_count + controller.exploitation_count > 0

\* C34: the mutation primitive perturbs a value by no more than the range
\* the policy has at the time: at most surgical_range in Normal mode, at
\* most exploration_range in Expansion mode.
C34_MutationWithinRange ==
    ret.op = "argument.mutate_int_value"
        => ret.result \in (ret.value - ret.range)..(ret.value + ret.range)

\* C35: _is_duplicate_bug answers False the first time a key (the bug type
\* and the first 200 characters of the message) comes and True every later
\* time; no key has more than one test case written to a potential-bug
\* directory; total = skipped + the number of stored keys.
C35_OneTestCasePerKey ==
    /\ [](/\ library.dedup_stats.total
                = library.dedup_stats.skipped + Cardinality(library.seen_errors)
          /\ \A slot \in DOMAIN library.written :
                slot[2] = "potential-bug"
                    => /\ slot[3].some
                       /\ slot[3].val \in library.seen_errors
                       /\ library.written[slot] = 1
                       /\ \A other \in DOMAIN library.written :
                             (other[2] = "potential-bug" /\ other[3] = slot[3]) => other = slot)
    /\ [][(ret'.op = "library.is_duplicate_bug" /\ ret'.error_msg.some)
            => /\ ret'.key = Some(ret'.bug_type \o ":" \o SubSeq(ret'.error_msg.val, 1, Min(200, Len(ret'.error_msg.val))))
               /\ ret'.result = (ret'.key.val \in library.seen_errors)
               /\ ret'.key.val \in library'.seen_errors]_vars

\* a crash whose message differs from a stored one only past the 200th
\* character was taken as a duplicate and not written
C35_Witness ==
    /\ ret.op = "library.test_with_oracle"
    /\ ret.oracle = "crash"
    /\ ret.duplicate
    /\ ret.run.error = Some(LongCrash \o "B")
    /\ <<"crash", "potential-bug", ret.key>> \in DOMAIN library.written
    /\ library.dedup_stats = [total |-> 2, skipped |-> 1]

\* C36: constructed alike and given the same update and add_seed calls,
\* the HKG script's copies of EnhancedCoverageTracker and
\* EvolutionaryCorpus hold the same known tokens, the same history and the
\* same corpus as the full script's classes, and update reports the same
\* number of new tokens.
C36_CopiesBehaveAlike ==
    /\ hkg.tracker.all_kernels = tracker.all_kernels
    /\ hkg.tracker.history = tracker.history
    /\ hkg.corpus.corpus = corpus.corpus
    /\ ret.op = "copies.update" => ret.hkg_num_fresh = ret.num_fresh

\* both corpora have evicted a seed and both trackers have logged a call
\* that brought a new token, with the detector on
C36_Witness ==
    /\ Len(admitted) > corpus.max_size
    /\ Len(hkg.corpus.corpus) = corpus.max_size
    /\ tracker.has_detector
    /\ ret.op = "copies.update"
    /\ ret.num_fresh > 0
    /\ Len(hkg.tracker.history) >= 1

\* C38: first_occurrence has one entry per signature counted as unique (its
\* size is the sum of the unique counters of the three buckets), and an
\* entry, once made, is never replaced by a later record.
C38_FirstOccurrenceKept ==
    /\ [](Cardinality(DOMAIN dedup.first_occurrence)
              = SumOver(dedup.unique_bugs, Buckets))
    /\ [][\A sig_hash \in DOMAIN dedup.first_occurrence :
              /\ sig_hash \in DOMAIN dedup'.first_occurrence
              /\ dedup'.first_occurrence[sig_hash] = dedup.first_occurrence[sig_hash]]_vars

\* C40: the counter of stored records (total_records in the full script,
\* total_unique_hits in the HKG script) equals the sizes of the hit sets
\* summed over all targets, whatever register and record_hit calls were made.
C40_CounterIsSumOfHits ==
    StoredTotal(space) = IF variant = "full" THEN space.total_records
                         ELSE space.total_unique_hits

============================================================================
